---- MODULE Spec2Model ----
(***************************************************************************)
(* Job-based generation orchestrator of the chat server: the in-memory job *)
(* store, the background processChat task of the poll transport with the  *)
(* cancel endpoint and the retention timer, and the push (WebSocket)       *)
(* handler handleChatMessage; the token budgeter truncateMessages with    *)
(* filterIncompleteToolCalls; and the retry logic of the chat client's    *)
(* onFinish callback.                                                      *)
(***************************************************************************)
EXTENDS Integers, Sequences, FiniteSets, TLC

\* ------------------------------------------------------------------------
\* Bounds
\* ------------------------------------------------------------------------
\* longest provider event sequence delivered to one processChat run
MaxEvents == 3
\* most text chunks the push handler reads from result.textStream
MaxChunks == 2
\* most heartbeat timer ticks during one push generation
MaxHeartbeats == 2
\* longest history handed to truncateMessages
MaxHistory == 3
\* most streams (initial requests and regenerations) one chat client starts
MaxStreams == 3
\* most stream parts the chat client counts before its cursor is reset
MaxCursor == 52
\* poll requests of the polling client that may be in flight at once
MaxInFlight == 2
\* events of one provider stream in the runs checked for termination
MaxLiveEvents == 2

\* ------------------------------------------------------------------------
\* Values
\* ------------------------------------------------------------------------
\* JavaScript null / undefined
NULL == "<null>"
\* a thrown value that is not an instance of Error
NonError == "<non-error>"

JobIds == {"j1"}
TheJob == "j1"
TheChat == "c1"
\* generateUUID() of the assistant message
TheMessageId == "m1"

TextDeltas == {"Hello", " world"}
ReasoningDeltas == {"think"}
ToolCallIds == {"t1", "t2"}
ToolResults == {"41", "42"}
FinishReasons == {"stop", "length"}
\* what a rejected promise or a throwing stream can carry
Thrown == {"boom", NonError}

Event(type, text, id, result, reason) ==
  [type |-> type, text |-> text, toolCallId |-> id, result |-> result,
   finishReason |-> reason]

\* the events result.fullStream can yield: one per case of the switch that
\* changes state, "error", and "raw" for every type that is only logged or
\* skipped (step-finish, finish-step, text-start, text-end, default)
Events ==
     {Event("text-delta", t, NULL, NULL, NULL) : t \in TextDeltas \cup {NULL}}
  \cup {Event("reasoning", t, NULL, NULL, NULL) : t \in ReasoningDeltas}
  \cup {Event("tool-call", NULL, i, NULL, NULL) : i \in ToolCallIds}
  \cup {Event("tool-result", NULL, i, r, NULL) : i \in ToolCallIds, r \in ToolResults}
  \cup {Event(ty, NULL, NULL, NULL, NULL) :
          ty \in {"source", "step-start", "error", "raw"}}
  \cup {Event("finish", NULL, NULL, NULL, r) : r \in FinishReasons}

\* ------------------------------------------------------------------------
\* State
\* ------------------------------------------------------------------------
VARIABLES
  jobs,             \* the job store Map: job id -> ChatJob (parts hold object ids)
  heap,             \* the part objects, by object id; arrays hold references
  pc,               \* position of the start handler / processChat task
  dbAvailable,      \* processChat local: isDatabaseAvailable()
  saved,            \* history: saveMessages stored the assistant message
  orderedParts,     \* processChat local: array of part references
  currentTextPart,  \* processChat local: reference or 0 (null)
  reasoningPart,    \* processChat local: reference or 0 (null)
  toolCalls,        \* processChat local: Map toolCallId -> reference
  finishReason,     \* processChat local
  seen,             \* history: the provider events delivered so far
  born,             \* history: per object id, 1 + number of events before it was created
  cancelled,        \* history: the cancel endpoint has failed the job
  thrown,           \* history: the value caught by processChat's catch block
  beforeThrow,      \* history: what a read returned just before the catch block ran
  wsAuth,           \* push: ws.isAuthenticated
  wsOpen,           \* push: ws.readyState === OPEN
  wpc,              \* push: position of handleChatMessage
  sent,             \* push: the events the server has sent on the socket
  wsFullText,       \* push: handleChatMessage local fullText
  wsFinishReason,   \* push: handleChatMessage local finishReason
  heartbeatOn,      \* push: the heartbeat interval is set
  heartbeatCount,   \* push: handleChatMessage local heartbeatCount
  history,          \* budgeter: the messages argument
  maxTokens,        \* budgeter: the maxTokens argument
  kept,             \* budgeter: the returned messages
  bpc,              \* budgeter: which call produced kept
  cpc,              \* client: useChat status / pending retry timer
  streamCursor,     \* client: streamCursor state (read through streamCursorRef)
  lastPart,         \* client: type of lastPart (read through lastPartRef)
  retryCount,       \* client: retryCountRef.current
  lastMessageId,    \* client: lastMessageIdRef.current
  toasts,           \* client: the toasts shown so far, by type
  streams,          \* history: number of streams the client has started
  streamParts,      \* history: stream parts received in the current stream
  streamFinish,     \* history: a finish part was received in the current stream
  lastFinish,       \* history: the argument of the last onFinish call
  interrupts,       \* history: consecutive ambiguous interruptions of one message
  req,              \* start endpoint: the last request handled
  res,              \* start endpoint: the status code of its response, 0 for none
  owner,            \* history: the user whose start request created the job
  access,           \* job endpoints: the last request handled and its answer
  hookStatus,       \* polling client: status state of useAsyncChat
  hookError,        \* polling client: message of the error state
  pollingRef,       \* polling client: the interval of startPolling is set
  lastPartsReceivedRef, \* polling client: lastPartsReceivedRef.current
  timeSinceLastUpdate,  \* polling client: Date.now() - lastUpdateTimeRef.current
  timeSinceProgress,    \* history: ms since the client last saw partsReceived rise
  currentJobId,     \* polling client: currentJobId state
  inFlight,         \* polling client: answers of the polls not yet handled
  finishCalls,      \* history: calls of the onFinish option
  errorCalls,       \* history: calls of the onError option
  stopped           \* history: stop() has been called

pollVars == <<jobs, heap, pc, dbAvailable, saved, orderedParts, currentTextPart,
              reasoningPart, toolCalls, finishReason, seen, born, cancelled,
              thrown, beforeThrow>>
pushVars == <<wsAuth, wsOpen, wpc, sent, wsFullText, wsFinishReason,
              heartbeatOn, heartbeatCount>>
budgetVars == <<history, maxTokens, kept, bpc>>
clientVars == <<cpc, streamCursor, lastPart, retryCount, lastMessageId, toasts,
                streams, streamParts, streamFinish, lastFinish, interrupts>>
startVars == <<req, res, owner, access>>
hookVars == <<hookStatus, hookError, pollingRef, lastPartsReceivedRef,
              timeSinceLastUpdate, timeSinceProgress, currentJobId, inFlight,
              finishCalls, errorCalls, stopped>>
vars == <<pollVars, pushVars, budgetVars, clientVars, startVars, hookVars>>

\* what an action of the poll transport leaves alone
nonPollVars == <<pushVars, budgetVars, clientVars, startVars, hookVars>>
\* what an action of the push transport leaves alone
nonPushVars == <<pollVars, budgetVars, clientVars, startVars, hookVars>>
\* what a call of the budgeter leaves alone
nonBudgetVars == <<pollVars, pushVars, clientVars, startVars, hookVars>>
\* what an action of the chat client leaves alone
nonClientVars == <<pollVars, pushVars, budgetVars, startVars, hookVars>>
\* what the start endpoint leaves alone besides the poll transport
nonStartVars == <<pushVars, budgetVars, clientVars, hookVars>>
\* what the polling client leaves alone besides the poll transport
nonHookVars == <<pushVars, budgetVars, clientVars, startVars>>

\* ------------------------------------------------------------------------
\* Part objects
\* ------------------------------------------------------------------------
Part(type, text, id, state, result) ==
  [type |-> type, text |-> text, toolCallId |-> id, state |-> state,
   result |-> result]

TextPart(t) == Part("text", t, NULL, NULL, NULL)
ReasoningPartObj(t) == Part("reasoning", t, NULL, NULL, NULL)
ToolCallPart(id) == Part("dynamic-tool", NULL, id, "input-available", NULL)
SourcePart == Part("source-url", NULL, NULL, NULL, NULL)
StepStartPart == Part("step-start", NULL, NULL, NULL, NULL)

\* Object.assign(target, updates)
ObjectAssign(target, updates) ==
  [f \in DOMAIN target |-> IF f \in DOMAIN updates THEN updates[f] ELSE target[f]]

\* a matcher callback (p) => p.f1 === v1 && ... is the record of the fields
\* it compares
Matches(p, matcher) == \A f \in DOMAIN matcher : p[f] = matcher[f]

\* Array.prototype.find over an array of references: the first index whose
\* object satisfies the matcher, or 0
FindIndex(hp, arr, matcher) ==
  IF \E i \in 1..Len(arr) : Matches(hp[arr[i]], matcher)
    THEN CHOOSE i \in 1..Len(arr) :
           /\ Matches(hp[arr[i]], matcher)
           /\ \A k \in 1..(i - 1) : ~Matches(hp[arr[k]], matcher)
    ELSE 0

\* the world the job-store functions and processChat work on
World ==
  [jobs |-> jobs, heap |-> heap, orderedParts |-> orderedParts,
   currentTextPart |-> currentTextPart, reasoningPart |-> reasoningPart,
   toolCalls |-> toolCalls, finishReason |-> finishReason]

\* ------------------------------------------------------------------------
\* Job store
\* ------------------------------------------------------------------------
\* createJob that already marks the job streaming
createJobStreaming(w, jobId, chatId) ==
  [w EXCEPT !.jobs = [k \in DOMAIN w.jobs \cup {jobId} |->
     IF k = jobId
       THEN [chatId |-> chatId, status |-> "streaming", messageId |-> NULL,
             error |-> NULL, partialText |-> "", parts |-> <<>>,
             partsReceived |-> 0, finishReason |-> NULL]
       ELSE w.jobs[k]]]

createJob(w, jobId, chatId) ==
  [w EXCEPT !.jobs = [k \in DOMAIN w.jobs \cup {jobId} |->
     IF k = jobId
       THEN [chatId |-> chatId, status |-> "pending", messageId |-> NULL,
             error |-> NULL, partialText |-> "", parts |-> <<>>,
             partsReceived |-> 0, finishReason |-> NULL]
       ELSE w.jobs[k]]]

\* the setTimeout callback scheduled by createJob
CleanupExpired(w, jobId) ==
  [w EXCEPT !.jobs = [k \in DOMAIN w.jobs \ {jobId} |-> w.jobs[k]]]

hasJob(w, jobId) == jobId \in DOMAIN w.jobs

updateJobStatus(w, jobId, status) ==
  IF ~hasJob(w, jobId) THEN w
  ELSE [w EXCEPT !.jobs[jobId].status = status]

\* appendJobText with "=" in place of "+=" on partialText
appendJobTextOverwrite(w, jobId, text) ==
  IF ~hasJob(w, jobId) THEN w
  ELSE
    LET job == w.jobs[jobId]
        idx == FindIndex(w.heap, job.parts, [type |-> "text"])
    IN IF idx # 0
         THEN [w EXCEPT !.jobs[jobId].partialText = text,
                        !.jobs[jobId].partsReceived = @ + 1,
                        !.heap[job.parts[idx]].text = text]
         ELSE [w EXCEPT !.jobs[jobId].partialText = text,
                        !.jobs[jobId].partsReceived = @ + 1,
                        !.heap = Append(@, TextPart(text)),
                        !.jobs[jobId].parts = Append(@, Len(w.heap) + 1)]

appendJobText(w, jobId, text) ==
  IF ~hasJob(w, jobId) THEN w
  ELSE
    LET job == w.jobs[jobId]
        newText == job.partialText \o text
        idx == FindIndex(w.heap, job.parts, [type |-> "text"])
    IN IF idx # 0
         THEN [w EXCEPT !.jobs[jobId].partialText = newText,
                        !.jobs[jobId].partsReceived = @ + 1,
                        !.heap[job.parts[idx]].text = newText]
         ELSE [w EXCEPT !.jobs[jobId].partialText = newText,
                        !.jobs[jobId].partsReceived = @ + 1,
                        !.heap = Append(@, TextPart(newText)),
                        !.jobs[jobId].parts = Append(@, Len(w.heap) + 1)]

\* addJobPart that creates the entry it does not find
addJobPartCreates(w, jobId, ref) ==
  IF hasJob(w, jobId)
    THEN [w EXCEPT !.jobs[jobId].parts = Append(@, ref),
                   !.jobs[jobId].partsReceived = @ + 1]
    ELSE LET c == createJob(w, jobId, TheChat) IN
         [c EXCEPT !.jobs[jobId].parts = <<ref>>,
                   !.jobs[jobId].partsReceived = 1]

addJobPart(w, jobId, ref) ==
  IF ~hasJob(w, jobId) THEN w
  ELSE [w EXCEPT !.jobs[jobId].parts = Append(@, ref),
                 !.jobs[jobId].partsReceived = @ + 1]

\* updateJobPart that does not count the update
updateJobPartUncounted(w, jobId, matcher, updates) ==
  IF ~hasJob(w, jobId) THEN w
  ELSE
    LET job == w.jobs[jobId]
        idx == FindIndex(w.heap, job.parts, matcher)
    IN IF idx = 0 THEN w
       ELSE [w EXCEPT !.heap[job.parts[idx]] = ObjectAssign(@, updates)]

updateJobPart(w, jobId, matcher, updates) ==
  IF ~hasJob(w, jobId) THEN w
  ELSE
    LET job == w.jobs[jobId]
        idx == FindIndex(w.heap, job.parts, matcher)
    IN IF idx = 0 THEN w
       ELSE [w EXCEPT !.heap[job.parts[idx]] = ObjectAssign(@, updates),
                      !.jobs[jobId].partsReceived = @ + 1]

setJobParts(w, jobId, parts) ==
  IF ~hasJob(w, jobId) THEN w
  ELSE [w EXCEPT !.jobs[jobId].parts = parts,
                 !.jobs[jobId].partsReceived = @ + 1]

completeJob(w, jobId, messageId, reason) ==
  IF ~hasJob(w, jobId) THEN w
  ELSE [w EXCEPT !.jobs[jobId].status = "completed",
                 !.jobs[jobId].messageId = messageId,
                 !.jobs[jobId].finishReason = reason]

\* failJob that also resets what was accumulated
failJobDropsParts(w, jobId, error) ==
  IF ~hasJob(w, jobId) THEN w
  ELSE [w EXCEPT !.jobs[jobId].status = "error",
                 !.jobs[jobId].error = error,
                 !.jobs[jobId].parts = <<>>,
                 !.jobs[jobId].partialText = ""]

failJob(w, jobId, error) ==
  IF ~hasJob(w, jobId) THEN w
  ELSE [w EXCEPT !.jobs[jobId].status = "error",
                 !.jobs[jobId].error = error]

\* the body of GET /job/:jobId: the parts are serialized at the time of the read
ReadJob(w, jobId) ==
  LET job == w.jobs[jobId]
  IN [status |-> job.status, messageId |-> job.messageId,
      partialText |-> job.partialText,
      parts |-> [i \in 1..Len(job.parts) |-> w.heap[job.parts[i]]],
      partsReceived |-> job.partsReceived,
      finishReason |-> job.finishReason, error |-> job.error]

\* a read of a job the store does not hold (404)
NoRead ==
  [status |-> NULL, messageId |-> NULL, partialText |-> NULL, parts |-> <<>>,
   partsReceived |-> 0, finishReason |-> NULL, error |-> NULL]

Read(w, jobId) == IF hasJob(w, jobId) THEN ReadJob(w, jobId) ELSE NoRead

\* ------------------------------------------------------------------------
\* processChat: the switch over the events of result.fullStream
\* ------------------------------------------------------------------------
\* allocate a part object; its reference is Len(w.heap) + 1
NewRef(w) == Len(w.heap) + 1

\* the text-delta case with unshift in place of push for a new text part
CaseTextDeltaUnshift(w, jobId, e) ==
  IF e.text = NULL THEN w
  ELSE
    LET w1 == IF w.currentTextPart = 0
                THEN [w EXCEPT !.heap = Append(@, TextPart("")),
                               !.currentTextPart = Len(w.heap) + 1,
                               !.orderedParts = <<Len(w.heap) + 1>> \o @]
                ELSE w
        w2 == [w1 EXCEPT !.heap[w1.currentTextPart].text = @ \o e.text]
    IN appendJobText(w2, jobId, e.text)

CaseTextDelta(w, jobId, e) ==
  IF e.text = NULL THEN w
  ELSE
    LET w1 == IF w.currentTextPart = 0
                THEN [w EXCEPT !.heap = Append(@, TextPart("")),
                               !.currentTextPart = NewRef(w),
                               !.orderedParts = Append(@, NewRef(w))]
                ELSE w
        w2 == [w1 EXCEPT !.heap[w1.currentTextPart].text = @ \o e.text]
    IN appendJobText(w2, jobId, e.text)

CaseReasoning(w, jobId, e) ==
  IF e.text = NULL THEN w
  ELSE
    LET w1 == IF w.reasoningPart = 0
                THEN addJobPart(
                       [w EXCEPT !.heap = Append(@, ReasoningPartObj("")),
                                 !.reasoningPart = NewRef(w),
                                 !.orderedParts = <<NewRef(w)>> \o @],
                       jobId, NewRef(w))
                ELSE w
        w2 == [w1 EXCEPT !.heap[w1.reasoningPart].text = @ \o e.text]
    IN updateJobPart(w2, jobId, [type |-> "reasoning"],
                     [text |-> w2.heap[w2.reasoningPart].text])

\* the tool-call case that leaves the part to setJobParts
CaseToolCallDeferred(w, jobId, e) ==
  LET ref == NewRef(w)
  IN [w EXCEPT
        !.currentTextPart = 0,
        !.heap = Append(@, ToolCallPart(e.toolCallId)),
        !.toolCalls = [k \in DOMAIN @ \cup {e.toolCallId} |->
                         IF k = e.toolCallId THEN ref ELSE @[k]],
        !.orderedParts = Append(@, ref)]

CaseToolCall(w, jobId, e) ==
  LET ref == NewRef(w)
      w1 == [w EXCEPT
               !.currentTextPart = 0,
               !.heap = Append(@, ToolCallPart(e.toolCallId)),
               !.toolCalls = [k \in DOMAIN @ \cup {e.toolCallId} |->
                                IF k = e.toolCallId THEN ref ELSE @[k]],
               !.orderedParts = Append(@, ref)]
  IN addJobPart(w1, jobId, ref)

\* the tool-result case that resolves the call and also appends a part for
\* the result
CaseToolResultAppends(w, jobId, e) ==
  IF e.toolCallId \notin DOMAIN w.toolCalls THEN w
  ELSE
    LET existingCall == w.toolCalls[e.toolCallId]
        ref == Len(w.heap) + 1
        w1 == [w EXCEPT
                 !.heap = Append([@ EXCEPT ![existingCall].state = "output-available",
                                           ![existingCall].result = e.result],
                                 Part("tool-result", NULL, e.toolCallId,
                                      "output-available", e.result)),
                 !.orderedParts = Append(@, ref)]
    IN addJobPart(w1, jobId, ref)

CaseToolResult(w, jobId, e) ==
  IF e.toolCallId \notin DOMAIN w.toolCalls THEN w
  ELSE
    LET existingCall == w.toolCalls[e.toolCallId]
        w1 == [w EXCEPT !.heap[existingCall].state = "output-available",
                        !.heap[existingCall].result = e.result]
    IN updateJobPart(w1, jobId,
                     [type |-> "dynamic-tool", toolCallId |-> e.toolCallId],
                     [state |-> "output-available", result |-> e.result])

CaseSource(w, jobId, e) ==
  addJobPart([w EXCEPT !.heap = Append(@, SourcePart),
                       !.orderedParts = Append(@, NewRef(w))],
             jobId, NewRef(w))

CaseStepStart(w, jobId, e) ==
  addJobPart([w EXCEPT !.heap = Append(@, StepStartPart),
                       !.orderedParts = Append(@, NewRef(w))],
             jobId, NewRef(w))

CaseFinish(w, jobId, e) == [w EXCEPT !.finishReason = e.finishReason]

\* one iteration of the for-await loop
HandlePart(w, jobId, e) ==
  CASE e.type = "text-delta"  -> CaseTextDelta(w, jobId, e)
    [] e.type = "reasoning"   -> CaseReasoning(w, jobId, e)
    [] e.type = "tool-call"   -> CaseToolCall(w, jobId, e)
    [] e.type = "tool-result" -> CaseToolResult(w, jobId, e)
    [] e.type = "source"      -> CaseSource(w, jobId, e)
    [] e.type = "finish"      -> CaseFinish(w, jobId, e)
    [] e.type = "step-start"  -> CaseStepStart(w, jobId, e)
    [] OTHER                  -> w

\* the onFinish callback given to streamText
OnFinish(w, reason) == [w EXCEPT !.finishReason = reason]

\* from "const fullText" to setJobParts: the result.text fallback and the
\* hand-over of orderedParts; resultText is NULL when result.text rejects
Finalize(w, jobId, resultText) ==
  LET fullText == IF w.currentTextPart = 0 THEN ""
                  ELSE w.heap[w.currentTextPart].text
      w1 == IF resultText # NULL /\ resultText # "" /\ fullText = ""
              THEN [w EXCEPT !.heap = Append(@, TextPart(resultText)),
                             !.orderedParts = Append(@, NewRef(w))]
              ELSE w
  IN setJobParts(w1, jobId, w1.orderedParts)

\* the end of processChat written with updateJobStatus
CompleteByStatusUpdate(w, jobId) == updateJobStatus(w, jobId, "completed")

\* completeJob(jobId, messageId, finishReason || 'stop')
Complete(w, jobId) ==
  completeJob(w, jobId, TheMessageId,
              IF w.finishReason = NULL THEN "stop" ELSE w.finishReason)

\* error instanceof Error ? error.message : 'Chat processing failed'
ErrorText(t) == IF t = NonError THEN "Chat processing failed" ELSE t

\* a catch block that only logs the error
CatchOnlyLogs(w, jobId, t) == w

\* the catch block of processChat
Catch(w, jobId, t) == failJob(w, jobId, ErrorText(t))

\* ------------------------------------------------------------------------
\* Poll transport: actions
\* ------------------------------------------------------------------------
RECURSIVE TextOf(_)
\* the text the provider streamed: the text-delta payloads in arrival order
TextOf(evs) ==
  IF evs = <<>> THEN ""
  ELSE LET e == evs[Len(evs)]
       IN TextOf(SubSeq(evs, 1, Len(evs) - 1)) \o
            (IF e.type = "text-delta" /\ e.text # NULL THEN e.text ELSE "")

FinishSeen(evs) == \E i \in 1..Len(evs) : evs[i].type = "finish"

\* write a world back to the variables; objects created by the step are
\* stamped with the number of the event being processed
Commit(w) ==
  /\ jobs' = w.jobs
  /\ heap' = w.heap
  /\ orderedParts' = w.orderedParts
  /\ currentTextPart' = w.currentTextPart
  /\ reasoningPart' = w.reasoningPart
  /\ toolCalls' = w.toolCalls
  /\ finishReason' = w.finishReason
  /\ born' = born \o [i \in 1..(Len(w.heap) - Len(heap)) |-> Len(seen) + 1]

\* a rejected await or a throwing stream iteration lands in the catch block
Throw(t) ==
  /\ Commit(Catch(World, TheJob, t))
  /\ pc' = "failed"
  /\ thrown' = t
  /\ beforeThrow' = Read(World, TheJob)
  /\ UNCHANGED <<dbAvailable, saved, seen, cancelled, nonPollVars>>

\* POST /start, accepted: createJob, respond, setImmediate
Start ==
  /\ pc = "idle"
  /\ Commit(createJob(World, TheJob, TheChat))
  /\ pc' = "scheduled"
  /\ UNCHANGED <<dbAvailable, saved, seen, cancelled, thrown, beforeThrow, nonPollVars>>

\* the setImmediate callback: processChat up to await myProvider.languageModel
Dispatch ==
  /\ pc = "scheduled"
  /\ pc' = "model"
  /\ UNCHANGED <<jobs, heap, dbAvailable, saved, orderedParts, currentTextPart, reasoningPart,
                 toolCalls, finishReason, seen, born, cancelled, thrown,
                 beforeThrow, nonPollVars>>

\* languageModel resolved: updateJobStatus(streaming), filter, truncate,
\* streamText, up to the first await on the stream
BeginStreaming ==
  /\ pc = "model"
  /\ Commit(updateJobStatus(World, TheJob, "streaming"))
  /\ pc' = "stream"
  /\ UNCHANGED <<dbAvailable, saved, seen, cancelled, thrown, beforeThrow, nonPollVars>>

ModelRejects ==
  /\ pc = "model"
  /\ \E t \in Thrown : Throw(t)

\* the stream yields one more event; finish is the last event of a stream
StreamPart ==
  /\ pc = "stream"
  /\ Len(seen) < MaxEvents
  /\ ~FinishSeen(seen)
  /\ \E e \in Events :
       /\ Commit(HandlePart(World, TheJob, e))
       /\ seen' = Append(seen, e)
  /\ UNCHANGED <<pc, dbAvailable, saved, cancelled, thrown, beforeThrow, nonPollVars>>

\* convertToModelMessages rejects or the stream iteration throws
StreamThrows ==
  /\ pc = "stream"
  /\ \E t \in Thrown : Throw(t)

\* the stream ends; streamText calls onFinish with the reason of the finish
\* event when there was one; processChat awaits result.response
StreamEnds ==
  /\ pc = "stream"
  /\ Commit(IF FinishSeen(seen)
              THEN OnFinish(World, seen[Len(seen)].finishReason)
              ELSE World)
  /\ pc' = "response"
  /\ UNCHANGED <<dbAvailable, saved, seen, cancelled, thrown, beforeThrow, nonPollVars>>

ResponseResolves ==
  /\ pc = "response"
  /\ pc' = "text"
  /\ UNCHANGED <<jobs, heap, dbAvailable, saved, orderedParts, currentTextPart,
                 reasoningPart, toolCalls, finishReason, seen, born, cancelled,
                 thrown, beforeThrow, nonPollVars>>

ResponseRejects ==
  /\ pc = "response"
  /\ \E t \in Thrown : Throw(t)

\* after setJobParts: await saveMessages when there is something to save,
\* otherwise completeJob at once.  dbAvailable is read when processChat
\* starts and used only here, so its value is drawn here
AfterFinalize(w) ==
  /\ dbAvailable' \in BOOLEAN
  /\ IF dbAvailable' /\ Len(w.orderedParts) > 0
       THEN Commit(w) /\ pc' = "save"
       ELSE Commit(Complete(w, TheJob)) /\ pc' = "done"

\* result.text resolved with the streamed text
TextResolves ==
  /\ pc = "text"
  /\ AfterFinalize(Finalize(World, TheJob, TextOf(seen)))
  /\ UNCHANGED <<saved, seen, cancelled, thrown, beforeThrow, nonPollVars>>

\* result.text rejected: logged, no fallback
TextRejects ==
  /\ pc = "text"
  /\ AfterFinalize(Finalize(World, TheJob, NULL))
  /\ UNCHANGED <<saved, seen, cancelled, thrown, beforeThrow, nonPollVars>>

\* saveMessages (and updateChatLastContextById) returned
SaveResolves ==
  /\ pc = "save"
  /\ Commit(Complete(World, TheJob))
  /\ pc' = "done"
  /\ saved' = TRUE
  /\ UNCHANGED <<dbAvailable, seen, cancelled, thrown, beforeThrow, nonPollVars>>

\* a persistence failure that reaches the outer catch block
SaveRejectsFailsJob ==
  /\ pc = "save"
  /\ Commit(failJob(World, TheJob, "boom"))
  /\ pc' = "done"
  /\ saved' = FALSE
  /\ UNCHANGED <<dbAvailable, seen, cancelled, thrown, beforeThrow, nonPollVars>>

\* saveMessages or updateChatLastContextById threw: logged, job still completes
SaveRejects ==
  /\ pc = "save"
  /\ Commit(Complete(World, TheJob))
  /\ pc' = "done"
  /\ saved' = FALSE
  /\ UNCHANGED <<dbAvailable, seen, cancelled, thrown, beforeThrow, nonPollVars>>

\* a cancel endpoint that fails the job whatever its status
CancelAnyStatus ==
  /\ hasJob(World, TheJob)
  /\ Commit(failJob(World, TheJob, "Cancelled by user"))
  /\ cancelled' = TRUE
  /\ UNCHANGED <<pc, dbAvailable, saved, seen, thrown, beforeThrow, nonPollVars>>

\* POST /job/:jobId/cancel
Cancel ==
  /\ hasJob(World, TheJob)
  /\ IF jobs[TheJob].status \in {"pending", "streaming"}
       THEN /\ Commit(failJob(World, TheJob, "Cancelled by user"))
            /\ cancelled' = TRUE
       ELSE UNCHANGED <<jobs, heap, orderedParts, currentTextPart,
                        reasoningPart, toolCalls, finishReason, born, cancelled>>
  /\ UNCHANGED <<pc, dbAvailable, saved, seen, thrown, beforeThrow, nonPollVars>>

\* the retention timer of createJob fires
Expire ==
  /\ hasJob(World, TheJob)
  /\ Commit(CleanupExpired(World, TheJob))
  /\ UNCHANGED <<pc, dbAvailable, saved, seen, cancelled, thrown, beforeThrow, nonPollVars>>

\* ------------------------------------------------------------------------
\* Push transport: handleChatMessage on one authenticated-or-not socket
\* ------------------------------------------------------------------------
TextChunks == {"Hello", " world"}

Msg(type, data) == [type |-> type, data |-> data]

\* ws.send(JSON.stringify(msg)): sent records the calls the server makes
Send(s, msg) == Append(s, msg)

\* a client connects: authenticateFromHeaders finds a user id or not, and
\* the server sends the ready signal
WsConnect ==
  /\ wpc = "connecting"
  /\ wsAuth' \in BOOLEAN
  /\ sent' = Send(sent, Msg("connected", NULL))
  /\ wpc' = "idle"
  /\ UNCHANGED <<wsOpen, wsFullText, wsFinishReason, heartbeatOn,
                 heartbeatCount, nonPushVars>>

\* handleAuthMessage: the headers carry a user id or not; the client sends
\* its auth message once, before its chat message
AuthMessage ==
  /\ wpc = "idle"
  /\ \A i \in 1..Len(sent) : sent[i].type # "auth_result"
  /\ wsAuth' \in BOOLEAN
  /\ sent' = Send(sent, Msg("auth_result", NULL))
  /\ UNCHANGED <<wsOpen, wpc, wsFullText, wsFinishReason, heartbeatOn,
                 heartbeatCount, nonPushVars>>

\* a 'chat' message arrives: handleChatMessage up to its first await
ChatRequest ==
  /\ wpc = "idle"
  /\ IF ~wsAuth
       THEN /\ sent' = Send(sent, Msg("error", "Not authenticated"))
            /\ wpc' = "rejected"
            /\ UNCHANGED heartbeatOn
       ELSE /\ heartbeatOn' = TRUE
            /\ wpc' = "model"
            /\ UNCHANGED sent
  /\ UNCHANGED <<wsAuth, wsOpen, wsFullText, wsFinishReason, heartbeatCount,
                 nonPushVars>>

\* the setInterval callback of handleChatMessage
Heartbeat ==
  /\ heartbeatOn
  /\ wsOpen
  /\ heartbeatCount < MaxHeartbeats
  /\ heartbeatCount' = heartbeatCount + 1
  /\ sent' = Send(sent, Msg("heartbeat", NULL))
  /\ UNCHANGED <<wsAuth, wsOpen, wpc, wsFullText, wsFinishReason, heartbeatOn,
                 nonPushVars>>

\* the client disconnects
WsClose ==
  /\ wsOpen
  /\ wsOpen' = FALSE
  /\ UNCHANGED <<wsAuth, wpc, sent, wsFullText, wsFinishReason, heartbeatOn,
                 heartbeatCount, nonPushVars>>

\* the catch and finally blocks of handleChatMessage
WsThrow ==
  /\ \E t \in Thrown :
       sent' = Send(sent, Msg("error", IF t = NonError THEN "Chat failed" ELSE t))
  /\ heartbeatOn' = FALSE
  /\ wpc' = "finished"
  /\ UNCHANGED <<wsAuth, wsOpen, wsFullText, wsFinishReason, heartbeatCount,
                 nonPushVars>>

\* languageModel resolved: send start, then await convertToModelMessages
WsModelResolves ==
  /\ wpc = "model"
  /\ sent' = Send(sent, Msg("start", NULL))
  /\ wpc' = "convert"
  /\ UNCHANGED <<wsAuth, wsOpen, wsFullText, wsFinishReason, heartbeatOn,
                 heartbeatCount, nonPushVars>>

WsModelRejects == wpc = "model" /\ WsThrow

\* convertToModelMessages resolved: streamText, send message_start
WsConvertResolves ==
  /\ wpc = "convert"
  /\ sent' = Send(sent, Msg("message_start", NULL))
  /\ wpc' = "stream"
  /\ UNCHANGED <<wsAuth, wsOpen, wsFullText, wsFinishReason, heartbeatOn,
                 heartbeatCount, nonPushVars>>

WsConvertRejects == wpc = "convert" /\ WsThrow

WsChunksRead == Cardinality({i \in 1..Len(sent) : sent[i].type = "text_delta"})

\* one iteration of the loop over result.textStream
WsChunk ==
  /\ wpc = "stream"
  /\ WsChunksRead < MaxChunks
  /\ \E c \in TextChunks :
       /\ wsFullText' = wsFullText \o c
       /\ sent' = Send(sent, Msg("text_delta", c))
  /\ UNCHANGED <<wsAuth, wsOpen, wpc, wsFinishReason, heartbeatOn,
                 heartbeatCount, nonPushVars>>

WsStreamThrows == wpc = "stream" /\ WsThrow

\* textStream ends; onFinish sets finishReason when streamText calls it
WsStreamEnds ==
  /\ wpc = "stream"
  /\ wsFinishReason' \in FinishReasons \cup {NULL}
  /\ wpc' = "response"
  /\ UNCHANGED <<wsAuth, wsOpen, sent, wsFullText, heartbeatOn, heartbeatCount,
                 nonPushVars>>

\* result.response resolved: await result.toolCalls
WsResponseResolves ==
  /\ wpc = "response"
  /\ wpc' = "toolCalls"
  /\ UNCHANGED <<wsAuth, wsOpen, sent, wsFullText, wsFinishReason, heartbeatOn,
                 heartbeatCount, nonPushVars>>

WsResponseRejects == wpc = "response" /\ WsThrow

\* the completion with the heartbeat of a timer that was not cleared
SendCompletionThenHeartbeat(s, reason) ==
  LET s1 == Send(s, Msg("done", reason))
      s2 == IF reason = "length" THEN Send(s1, Msg("warning", NULL)) ELSE s1
  IN Send(s2, Msg("heartbeat", NULL))

\* from the 'done' message to the end of the try block
SendCompletion(s, reason) ==
  LET s1 == Send(s, Msg("done", reason))
  IN IF reason = "length" THEN Send(s1, Msg("warning", NULL)) ELSE s1

\* result.toolCalls settled (nTools calls, 0 when it rejects): send
\* message_end; with parts to save await saveMessages, else complete
WsToolCallsSettle ==
  /\ wpc = "toolCalls"
  /\ \E nTools \in 0..1 :
       LET ended == Send(sent, Msg("message_end",
                      IF wsFinishReason = NULL THEN "stop" ELSE wsFinishReason))
       IN IF wsFullText # "" \/ nTools > 0
            THEN /\ sent' = ended
                 /\ wpc' = "save"
                 /\ UNCHANGED heartbeatOn
            ELSE /\ sent' = SendCompletion(ended, wsFinishReason)
                 /\ wpc' = "finished"
                 /\ heartbeatOn' = FALSE
  /\ UNCHANGED <<wsAuth, wsOpen, wsFullText, wsFinishReason, heartbeatCount,
                 nonPushVars>>

\* saveMessages returned or threw (logged): done, warning, finally
WsSaveSettles ==
  /\ wpc = "save"
  /\ sent' = SendCompletion(sent, wsFinishReason)
  /\ wpc' = "finished"
  /\ heartbeatOn' = FALSE
  /\ UNCHANGED <<wsAuth, wsOpen, wsFullText, wsFinishReason, heartbeatCount,
                 nonPushVars>>

\* ------------------------------------------------------------------------
\* Token budgeter: truncateToolOutput, countMessageTokens, truncateMessages,
\* filterIncompleteToolCalls
\* ------------------------------------------------------------------------
\* overhead countMessageTokens adds per message
MessageOverheadTokens == 4
\* the per-output ceiling countMessageTokens passes to truncateToolOutput
ToolOutputMaxTokens == 5000
\* default of truncateMessages' maxTokens parameter
DefaultMaxTokens == 100000
\* tokens of the indicator "\n\n[Output truncated: N tokens -> M tokens]"
IndicatorTokens == 12

\* a string, by what the tokenizer sees of it: a body of so many tokens and
\* the truncation indicator appended to it, <<from, to>>, or <<>> for none
Str(body, tokens) == [body |-> body, tokens |-> tokens, indicator |-> <<>>]

\* an undefined string-valued field
Undefined == [body |-> NULL, tokens |-> 0, indicator |-> <<>>]

\* tokenizer.encode(s).length
EncodeLength(s) ==
  s.tokens + (IF s.indicator = <<>> THEN 0 ELSE IndicatorTokens)

\* JavaScript truthiness of a string-valued field
Truthy(s) == s # Undefined /\ EncodeLength(s) > 0

\* a part of a ChatMessage of the history
UIPart(type, text, state, input, output, result) ==
  [type |-> type, text |-> text, state |-> state, input |-> input,
   output |-> output, result |-> result]

UIText(s) == UIPart("text", s, NULL, Undefined, Undefined, Undefined)
UITool(state, output, result) ==
  UIPart("dynamic-tool", Undefined, state, Str("{q}", 2), output, result)

ChatMessage(role, parts) == [role |-> role, parts |-> parts]

truncateToolOutput(output, max) ==
  LET n == EncodeLength(output) IN
  IF n <= max
    THEN [value |-> output, wasTruncated |-> FALSE]
    ELSE [value |-> [body |-> output.body,
                     tokens |-> IF output.tokens < max THEN output.tokens ELSE max,
                     indicator |-> <<n, max>>],
          wasTruncated |-> TRUE]

\* what one iteration of countMessageTokens' loop adds to totalTokens
PartTokens(part) ==
  IF part.type = "text" /\ Truthy(part.text)
    THEN EncodeLength(part.text)
    ELSE IF part.type = "dynamic-tool"
      THEN (IF Truthy(part.input) THEN EncodeLength(part.input) ELSE 0)
         + (IF Truthy(part.output) THEN EncodeLength(part.output) ELSE 0)
      ELSE 0

\* what one iteration of countMessageTokens' loop leaves in newParts[i]
PartTruncated(part, truncateToolOutputs) ==
  IF /\ part.type = "dynamic-tool"
     /\ Truthy(part.output)
     /\ truncateToolOutputs
     /\ truncateToolOutput(part.output, ToolOutputMaxTokens).wasTruncated
    THEN [part EXCEPT !.output =
            truncateToolOutput(part.output, ToolOutputMaxTokens).value]
    ELSE part

RECURSIVE SumTokens(_, _)
SumTokens(parts, i) ==
  IF i > Len(parts) THEN 0 ELSE PartTokens(parts[i]) + SumTokens(parts, i + 1)

countMessageTokens(message, truncateToolOutputs) ==
  [tokens |-> SumTokens(message.parts, 1) + MessageOverheadTokens,
   message |-> [message EXCEPT !.parts =
                  [i \in DOMAIN message.parts |->
                     PartTruncated(message.parts[i], truncateToolOutputs)]]]

\* the loop of truncateMessages from index i down to 1: messagesWithTokens
\* (the messages only) when the loop ends or breaks
RECURSIVE TruncateLoop(_, _, _, _, _)
TruncateLoop(messages, max, i, messagesWithTokens, totalTokens) ==
  IF i = 0
    THEN messagesWithTokens
    ELSE LET c == countMessageTokens(messages[i], TRUE) IN
         IF totalTokens + c.tokens <= max \/ Len(messagesWithTokens) < 2
           THEN TruncateLoop(messages, max, i - 1,
                             <<c.message>> \o messagesWithTokens,
                             totalTokens + c.tokens)
           ELSE messagesWithTokens

\* the loop without the minimum of two messages
RECURSIVE TruncateLoopNoMinimum(_, _, _, _, _)
TruncateLoopNoMinimum(messages, max, i, messagesWithTokens, totalTokens) ==
  IF i = 0
    THEN messagesWithTokens
    ELSE LET c == countMessageTokens(messages[i], TRUE) IN
         IF totalTokens + c.tokens <= max
           THEN TruncateLoopNoMinimum(messages, max, i - 1,
                                      <<c.message>> \o messagesWithTokens,
                                      totalTokens + c.tokens)
           ELSE messagesWithTokens

\* the variant that stops at the ceiling whatever it has kept
truncateMessagesNoMinimum(messages, max) ==
  IF Len(messages) = 0
    THEN messages
    ELSE LET truncated == TruncateLoopNoMinimum(messages, max, Len(messages), <<>>, 0) IN
         IF Len(truncated) = Len(messages) THEN messages ELSE truncated

\* the variant that returns the counted messages even when none was dropped
truncateMessagesReturnsCounted(messages, max) ==
  IF Len(messages) = 0
    THEN messages
    ELSE TruncateLoop(messages, max, Len(messages), <<>>, 0)

truncateMessages(messages, max) ==
  IF Len(messages) = 0
    THEN messages
    ELSE LET truncated == TruncateLoop(messages, max, Len(messages), <<>>, 0) IN
         IF Len(truncated) = Len(messages) THEN messages ELSE truncated

\* the placeholder part of a turn whose parts were all filtered out
InterruptedPlaceholder == UIText(Str("[Previous response was interrupted]", 7))

\* the filter callback: a dynamic-tool part stays only with a result
HasResult(part) ==
  part.type = "dynamic-tool" =>
    (part.state = "output-available" /\ (part.output # Undefined \/ part.result # Undefined))

RECURSIVE FilterParts(_, _)
FilterParts(parts, i) ==
  IF i > Len(parts)
    THEN <<>>
    ELSE (IF HasResult(parts[i]) THEN <<parts[i]>> ELSE <<>>)
         \o FilterParts(parts, i + 1)

\* the variant that leaves an emptied turn empty
FilterMessageNoPlaceholder(message) ==
  IF message.role # "assistant"
    THEN message
    ELSE [message EXCEPT !.parts = FilterParts(message.parts, 1)]

\* the map callback of filterIncompleteToolCalls
FilterMessage(message) ==
  IF message.role # "assistant"
    THEN message
    ELSE LET filteredParts == FilterParts(message.parts, 1) IN
         IF Len(filteredParts) = 0 /\ Len(message.parts) > 0
           THEN [message EXCEPT !.parts = <<InterruptedPlaceholder>>]
           ELSE [message EXCEPT !.parts = filteredParts]

filterIncompleteToolCalls(messages) ==
  [i \in DOMAIN messages |-> FilterMessage(messages[i])]

\* the histories and ceilings the budgeter is called with
SmallText == Str("hi", 3)
LargeText == Str("essay", 60000)
ToolOutputs == {Str("rows", 10), Str("rows", ToolOutputMaxTokens),
                Str("rows", ToolOutputMaxTokens + 1)}

HistoryMessages ==
     {ChatMessage("user", <<UIText(t)>>) : t \in {SmallText, LargeText}}
  \cup {ChatMessage("assistant", <<UIText(SmallText)>>),
        ChatMessage("assistant", <<>>),
        ChatMessage("assistant", <<UITool("input-available", Undefined, Undefined)>>),
        ChatMessage("assistant",
                    <<UIText(SmallText), UITool("input-available", Undefined, Undefined)>>),
        ChatMessage("assistant",
                    <<UITool("output-available", Undefined, Str("rows", 10))>>)}
  \cup {ChatMessage("assistant", <<UITool("output-available", o, Undefined)>>) :
          o \in ToolOutputs}

RECURSIVE Histories(_)
Histories(n) ==
  IF n = 0
    THEN {<<>>}
    ELSE Histories(n - 1)
         \cup {Append(h, m) : h \in {g \in Histories(n - 1) : Len(g) = n - 1},
                              m \in HistoryMessages}

\* histories one entry longer, of fewer kinds of messages: an entry is
\* dropped while more than two are kept
LongMessages ==
  {ChatMessage("user", <<UIText(LargeText)>>),
   ChatMessage("assistant", <<>>),
   ChatMessage("assistant",
               <<UITool("output-available",
                        Str("rows", ToolOutputMaxTokens + 1), Undefined)>>)}

LongHistories ==
  {Append(Append(h, m), n) :
     h \in {g \in Histories(MaxHistory - 1) : Len(g) = MaxHistory - 1}
            \cap Seq(LongMessages),
     m \in LongMessages, n \in LongMessages}

Ceilings == {10, ToolOutputMaxTokens + 20, DefaultMaxTokens}

\* a caller hands a history and a ceiling to truncateMessages
Truncate ==
  /\ bpc = "input"
  /\ kept' = truncateMessages(history, maxTokens)
  /\ bpc' = "truncated"
  /\ UNCHANGED <<history, maxTokens, nonBudgetVars>>

\* the caller hands the result to truncateMessages again
TruncateAgain ==
  /\ bpc = "truncated"
  /\ kept' = truncateMessages(kept, maxTokens)
  /\ bpc' = "again"
  /\ UNCHANGED <<history, maxTokens, nonBudgetVars>>

\* processChat prepares the history for streamText
PrepareHistory ==
  /\ bpc = "input"
  /\ kept' = truncateMessages(filterIncompleteToolCalls(history), DefaultMaxTokens)
  /\ bpc' = "prepared"
  /\ UNCHANGED <<history, maxTokens, nonBudgetVars>>

\* ------------------------------------------------------------------------
\* Chat client: onStreamPart and the retry logic of onFinish
\* ------------------------------------------------------------------------
\* maxRetries
MaxRetries == 2
\* more stream parts than this is a substantial response
SUBSTANTIAL_CONTENT_THRESHOLD == 50

\* ids the last message of finishedMessages can carry
MessageIds == {"a1", "a2"}
\* types of the stream parts handed to onStreamPart
PartTypes == {"text-delta", "finish"}

\* the argument of onFinish: the flags useChat passes, whether the last
\* message holds a credential error part, and the last message's id
Finish(isAbort, isDisconnect, isError, hasOAuthError, messageId) ==
  [isAbort |-> isAbort, isDisconnect |-> isDisconnect, isError |-> isError,
   hasOAuthError |-> hasOAuthError, messageId |-> messageId]

\* the flag combinations: completed, aborted, network failure, other error
FinishFlags ==
  {<<FALSE, FALSE, FALSE>>, <<TRUE, FALSE, FALSE>>, <<FALSE, TRUE, TRUE>>,
   <<FALSE, FALSE, TRUE>>}

Finishes ==
  {Finish(fl[1], fl[2], fl[3], o, m) :
     fl \in FinishFlags, o \in BOOLEAN, m \in MessageIds}

\* no onFinish call yet
NoFinish == Finish(FALSE, FALSE, FALSE, FALSE, NULL)

\* the refs and state onFinish reads and writes; regenerate: the retry
\* timer has been set
Client ==
  [streamCursor |-> streamCursor, lastPart |-> lastPart,
   retryCount |-> retryCount, lastMessageId |-> lastMessageId,
   toasts |-> toasts, regenerate |-> FALSE]

\* the classification that counts any amount of content as an interruption
wasInterruptedIgnoresContent(c, f) ==
  (f.isDisconnect \/ f.isError) /\ c.lastPart # "finish"

wasInterrupted(c, f) ==
  LET streamIncomplete == c.lastPart # "finish"
      hasSubstantialContent == c.streamCursor > SUBSTANTIAL_CONTENT_THRESHOLD
  IN  (f.isDisconnect \/ f.isError) /\ streamIncomplete /\ ~hasSubstantialContent

\* the callback that goes on to the retry logic after an abort or a
\* credential error
onFinishRetriesAll(c, f) ==
  IF wasInterrupted(c, f) /\ c.retryCount < MaxRetries
       /\ (f.messageId = c.lastMessageId \/ c.lastMessageId = NULL)
    THEN [c EXCEPT !.retryCount = @ + 1, !.lastMessageId = f.messageId,
                   !.toasts = Append(@, "info"), !.regenerate = TRUE]
    ELSE [c EXCEPT !.retryCount = 0, !.lastMessageId = NULL, !.streamCursor = 0]

onFinish(c, f) ==
  IF f.isAbort
    THEN [c EXCEPT !.streamCursor = 0]
  ELSE IF f.hasOAuthError
    THEN [c EXCEPT !.streamCursor = 0]
  ELSE IF wasInterrupted(c, f) /\ c.retryCount < MaxRetries
            /\ (f.messageId = c.lastMessageId \/ c.lastMessageId = NULL)
    THEN [c EXCEPT !.retryCount = @ + 1, !.lastMessageId = f.messageId,
                   !.toasts = Append(@, "info"), !.regenerate = TRUE]
  ELSE LET reset == [c EXCEPT !.retryCount = 0, !.lastMessageId = NULL,
                              !.streamCursor = 0]
       IN  IF wasInterrupted(c, f) /\ reset.retryCount >= MaxRetries
             THEN [reset EXCEPT !.toasts = Append(@, "warning")]
             ELSE reset

\* the stream ended without a finish part in it, on a network failure or an
\* error, below the substantial threshold, neither aborted nor on a
\* credential error
AmbiguousInterruption(f) ==
  /\ f.isDisconnect \/ f.isError
  /\ ~f.isAbort
  /\ ~f.hasOAuthError
  /\ ~streamFinish
  /\ streamParts <= SUBSTANTIAL_CONTENT_THRESHOLD

\* the user submits a message: useChat starts a stream
SendMessage ==
  /\ cpc = "ready"
  /\ streams < MaxStreams
  /\ cpc' = "streaming"
  /\ streams' = streams + 1
  /\ streamParts' = 0
  /\ streamFinish' = FALSE
  /\ UNCHANGED <<streamCursor, lastPart, retryCount, lastMessageId, toasts,
                 lastFinish, interrupts, nonClientVars>>

\* the transport hands a stream part to onStreamPart; finish is the last
\* part of a stream
OnStreamPart ==
  /\ cpc = "streaming"
  /\ ~streamFinish
  /\ streamCursor < MaxCursor
  /\ \E type \in PartTypes :
       /\ lastPart' = type
       /\ streamFinish' = (type = "finish")
  /\ streamCursor' = streamCursor + 1
  /\ streamParts' = streamParts + 1
  /\ UNCHANGED <<cpc, retryCount, lastMessageId, toasts, streams, lastFinish,
                 interrupts, nonClientVars>>

\* the stream ends and useChat calls onFinish
ChatFinishes ==
  /\ cpc = "streaming"
  /\ \E f \in Finishes :
       LET c == onFinish(Client, f) IN
       /\ streamCursor' = c.streamCursor
       /\ retryCount' = c.retryCount
       /\ lastMessageId' = c.lastMessageId
       /\ toasts' = c.toasts
       /\ cpc' = IF c.regenerate THEN "backoff" ELSE "ready"
       /\ lastFinish' = f
       /\ interrupts' =
            IF /\ AmbiguousInterruption(f)
               /\ interrupts < MaxRetries
               /\ (interrupts = 0 \/ f.messageId = lastFinish.messageId)
              THEN interrupts + 1
              ELSE 0
  /\ UNCHANGED <<lastPart, streams, streamParts, streamFinish, nonClientVars>>

\* the retry timer fires: regenerate starts a stream for the same turn
RetryFires ==
  /\ cpc = "backoff"
  /\ streams < MaxStreams
  /\ cpc' = "streaming"
  /\ streams' = streams + 1
  /\ streamParts' = 0
  /\ streamFinish' = FALSE
  /\ UNCHANGED <<streamCursor, lastPart, retryCount, lastMessageId, toasts,
                 lastFinish, interrupts, nonClientVars>>

\* ------------------------------------------------------------------------
\* POST /start: validation, access check, chat creation, job creation
\* ------------------------------------------------------------------------
\* a request as the handler sees it: which body fields are present, the role
\* of the last message ("none" for an empty array), whether the request
\* carries a session, what checkChatAccess returns (chat: NULL, owned by the
\* requester, owned by another user), whether the database is available and
\* whether saveChat throws
Request(id, messages, model, session, chat, allowed, reason, db, saveChatFails) ==
  [id |-> id, messages |-> messages, selectedChatModel |-> model,
   session |-> session, chat |-> chat, allowed |-> allowed, reason |-> reason,
   dbAvailable |-> db, saveChatFails |-> saveChatFails]

Requests ==
  {Request(i, ms, mo, s, c, a, r, d, f) :
     i \in BOOLEAN, ms \in {NULL, "none", "user", "assistant"}, mo \in BOOLEAN,
     s \in BOOLEAN, c \in {NULL, "own", "other"}, a \in BOOLEAN,
     r \in {NULL, "not_found", "forbidden"}, d \in BOOLEAN, f \in BOOLEAN}

\* no request handled yet
NoRequest ==
  Request(FALSE, NULL, FALSE, FALSE, NULL, FALSE, NULL, FALSE, FALSE)

\* the handler without the two access checks
StartStatusNoAccessCheck(r) ==
  IF ~r.id \/ r.messages = NULL \/ ~r.selectedChatModel THEN 400
  ELSE IF ~r.session THEN 401
  ELSE IF r.chat = NULL /\ r.dbAvailable /\ r.messages # "none" /\ r.saveChatFails
    THEN 500
  ELSE 200

\* the status code the handler answers with; 200 is the path that reaches
\* createJob
StartStatus(r) ==
  IF ~r.id \/ r.messages = NULL \/ ~r.selectedChatModel THEN 400
  ELSE IF ~r.session THEN 401
  ELSE IF r.reason # "not_found" /\ ~r.allowed THEN 403
  ELSE IF r.chat = NULL /\ r.dbAvailable /\ r.messages # "none"
    THEN (IF r.saveChatFails THEN 500 ELSE 200)
  ELSE IF r.chat # NULL /\ r.chat # "own" THEN 403
  ELSE 200

\* POST /start, the whole handler, for the one request of a run
StartRequest ==
  /\ pc = "idle"
  /\ res = 0
  /\ \E r \in Requests :
       /\ req' = r
       /\ res' = StartStatus(r)
       /\ IF StartStatus(r) = 200
            THEN /\ Commit(createJob(World, TheJob, TheChat))
                 /\ pc' = "scheduled"
            ELSE UNCHANGED <<jobs, heap, orderedParts, currentTextPart,
                             reasoningPart, toolCalls, finishReason, born, pc>>
  /\ UNCHANGED <<dbAvailable, saved, seen, cancelled, thrown, beforeThrow,
                 owner, access, nonStartVars>>

\* ------------------------------------------------------------------------
\* GET /job/:jobId and POST /job/:jobId/cancel, asked by some user
\* ------------------------------------------------------------------------
Users == {"alice", "bob"}

\* a request handled by a job endpoint: who asked (NULL without a session),
\* which route, the status code and the job fields of the body
Access(user, route, code, body) ==
  [user |-> user, route |-> route, code |-> code, body |-> body]

NoAccess == Access(NULL, "none", 0, NoRead)

\* requireAuth: a request without a session user is answered 401
requireAuth(user) == user # NULL

\* POST /start of a user with a session that passes validation and the
\* access check: the job is created and the generation is scheduled
StartBy(user) ==
  /\ pc = "idle"
  /\ owner = NULL
  /\ requireAuth(user)
  /\ Commit(createJob(World, TheJob, TheChat))
  /\ pc' = "scheduled"
  /\ owner' = user
  /\ UNCHANGED <<dbAvailable, saved, seen, cancelled, thrown, beforeThrow,
                 req, res, access, nonStartVars>>

\* the answer of GET /job/:jobId
GetJobAnswer(w, user, jobId) ==
  IF ~requireAuth(user) THEN Access(user, "read", 401, NoRead)
  ELSE IF ~hasJob(w, jobId) THEN Access(user, "read", 404, NoRead)
  ELSE Access(user, "read", 200, Read(w, jobId))

\* GET /job/:jobId
GetJob(user) ==
  /\ access' = GetJobAnswer(World, user, TheJob)
  /\ UNCHANGED <<pollVars, req, res, owner, nonStartVars>>

\* POST /job/:jobId/cancel
CancelJob(user) ==
  /\ IF ~requireAuth(user)
       THEN /\ access' = Access(user, "cancel", 401, NoRead)
            /\ UNCHANGED <<jobs, heap, orderedParts, currentTextPart,
                           reasoningPart, toolCalls, finishReason, born,
                           cancelled>>
       ELSE IF ~hasJob(World, TheJob)
         THEN /\ access' = Access(user, "cancel", 404, NoRead)
              /\ UNCHANGED <<jobs, heap, orderedParts, currentTextPart,
                             reasoningPart, toolCalls, finishReason, born,
                             cancelled>>
         ELSE /\ access' = Access(user, "cancel", 200, NoRead)
              /\ IF jobs[TheJob].status \in {"pending", "streaming"}
                   THEN /\ Commit(failJob(World, TheJob, "Cancelled by user"))
                        /\ cancelled' = TRUE
                   ELSE UNCHANGED <<jobs, heap, orderedParts, currentTextPart,
                                    reasoningPart, toolCalls, finishReason,
                                    born, cancelled>>
  /\ UNCHANGED <<pc, dbAvailable, saved, seen, thrown, beforeThrow, req, res,
                 owner, nonStartVars>>

\* ------------------------------------------------------------------------
\* Both transports served by one provider: processChat and handleChatMessage
\* receive the same outcome of every provider call.  result.textStream
\* carries the text of the text-delta events of result.fullStream and
\* nothing else; streamText calls onFinish of either handler with the reason
\* of the finish event
\* ------------------------------------------------------------------------
otherVars == <<budgetVars, clientVars, startVars, hookVars>>

\* the catch block of processChat for the thrown value t
PollCatch(t) ==
  /\ Commit(Catch(World, TheJob, t))
  /\ pc' = "failed"
  /\ thrown' = t
  /\ beforeThrow' = Read(World, TheJob)
  /\ UNCHANGED <<dbAvailable, saved, seen, cancelled>>

\* the catch and finally blocks of handleChatMessage for the thrown value t
WsCatch(t) ==
  /\ sent' = Send(sent, Msg("error", IF t = NonError THEN "Chat failed" ELSE t))
  /\ heartbeatOn' = FALSE
  /\ wpc' = "finished"
  /\ UNCHANGED <<wsAuth, wsOpen, wsFullText, wsFinishReason, heartbeatCount>>

\* myProvider.languageModel resolves for both handlers
BothModelResolve ==
  /\ pc = "model"
  /\ wpc = "model"
  /\ Commit(updateJobStatus(World, TheJob, "streaming"))
  /\ pc' = "stream"
  /\ sent' = Send(sent, Msg("start", NULL))
  /\ wpc' = "convert"
  /\ UNCHANGED <<dbAvailable, saved, seen, cancelled, thrown, beforeThrow,
                 wsAuth, wsOpen, wsFullText, wsFinishReason, heartbeatOn,
                 heartbeatCount, otherVars>>

\* myProvider.languageModel rejects for both handlers
BothModelReject ==
  /\ pc = "model"
  /\ wpc = "model"
  /\ \E t \in Thrown : PollCatch(t) /\ WsCatch(t)
  /\ UNCHANGED otherVars

\* convertToModelMessages resolves for both handlers
BothConvertResolve ==
  /\ pc = "stream"
  /\ seen = <<>>
  /\ WsConvertResolves

\* convertToModelMessages rejects for both handlers
BothConvertReject ==
  /\ pc = "stream"
  /\ seen = <<>>
  /\ wpc = "convert"
  /\ \E t \in Thrown : PollCatch(t) /\ WsCatch(t)
  /\ UNCHANGED otherVars

\* the provider yields one more event: one iteration of processChat's loop
\* over fullStream, and one of handleChatMessage's loop over textStream
\* when the event is a text delta
BothStreamPart ==
  /\ pc = "stream"
  /\ wpc = "stream"
  /\ Len(seen) < MaxEvents
  /\ ~FinishSeen(seen)
  /\ \E e \in Events :
       /\ Commit(HandlePart(World, TheJob, e))
       /\ seen' = Append(seen, e)
       /\ IF e.type = "text-delta" /\ e.text # NULL
            THEN /\ wsFullText' = wsFullText \o e.text
                 /\ sent' = Send(sent, Msg("text_delta", e.text))
            ELSE UNCHANGED <<wsFullText, sent>>
  /\ UNCHANGED <<pc, dbAvailable, saved, cancelled, thrown, beforeThrow,
                 wsAuth, wsOpen, wpc, wsFinishReason, heartbeatOn,
                 heartbeatCount, otherVars>>

\* the iteration of the provider's stream throws in both handlers
BothStreamThrow ==
  /\ pc = "stream"
  /\ wpc = "stream"
  /\ \E t \in Thrown : PollCatch(t) /\ WsCatch(t)
  /\ UNCHANGED otherVars

\* the provider's stream ends: onFinish of both handlers, both await
\* result.response
BothStreamEnd ==
  /\ pc = "stream"
  /\ wpc = "stream"
  /\ Commit(IF FinishSeen(seen)
              THEN OnFinish(World, seen[Len(seen)].finishReason)
              ELSE World)
  /\ pc' = "response"
  /\ wsFinishReason' = (IF FinishSeen(seen)
                          THEN seen[Len(seen)].finishReason
                          ELSE wsFinishReason)
  /\ wpc' = "response"
  /\ UNCHANGED <<dbAvailable, saved, seen, cancelled, thrown, beforeThrow,
                 wsAuth, wsOpen, sent, wsFullText, heartbeatOn,
                 heartbeatCount, otherVars>>

\* result.response resolves for both handlers
BothResponseResolve ==
  /\ pc = "response"
  /\ wpc = "response"
  /\ pc' = "text"
  /\ wpc' = "toolCalls"
  /\ UNCHANGED <<jobs, heap, dbAvailable, saved, orderedParts, currentTextPart,
                 reasoningPart, toolCalls, finishReason, seen, born, cancelled,
                 thrown, beforeThrow, wsAuth, wsOpen, sent, wsFullText,
                 wsFinishReason, heartbeatOn, heartbeatCount, otherVars>>

\* result.response rejects for both handlers
BothResponseReject ==
  /\ pc = "response"
  /\ wpc = "response"
  /\ \E t \in Thrown : PollCatch(t) /\ WsCatch(t)
  /\ UNCHANGED otherVars

\* ------------------------------------------------------------------------
\* Polling client: the useAsyncChat hook
\* ------------------------------------------------------------------------
\* default of the pollingInterval option, in ms
PollingInterval == 2000
STALE_JOB_TIMEOUT_MS == 120000
TimeoutMessage == "Request timed out. Please try again."
StartFailedMessage == "Failed to start chat"

\* elapsed times are kept up to the first value past the stale timeout; the
\* callback only asks whether they exceed the timeout
ElapsedCap == STALE_JOB_TIMEOUT_MS + PollingInterval
Elapse(t) == IF t + PollingInterval > ElapsedCap THEN ElapsedCap
             ELSE t + PollingInterval

\* the hook's state and refs as one value
Hook ==
  [status |-> hookStatus, error |-> hookError, polling |-> pollingRef,
   lastPartsReceived |-> lastPartsReceivedRef,
   sinceUpdate |-> timeSinceLastUpdate, sinceProgress |-> timeSinceProgress,
   jobId |-> currentJobId, finishCalls |-> finishCalls,
   errorCalls |-> errorCalls]

SetHook(h) ==
  /\ hookStatus' = h.status
  /\ hookError' = h.error
  /\ pollingRef' = h.polling
  /\ lastPartsReceivedRef' = h.lastPartsReceived
  /\ timeSinceLastUpdate' = h.sinceUpdate
  /\ timeSinceProgress' = h.sinceProgress
  /\ currentJobId' = h.jobId
  /\ finishCalls' = h.finishCalls
  /\ errorCalls' = h.errorCalls

\* sendMessage: POST /start answers with a job id (the endpoint has created
\* the job) and startPolling runs, or the request fails
AsyncSendMessage ==
  /\ hookStatus = "idle"
  /\ pc = "idle"
  /\ ~stopped
  /\ \/ /\ Commit(createJob(World, TheJob, TheChat))
        /\ pc' = "scheduled"
        /\ SetHook([Hook EXCEPT !.status = "streaming", !.error = NULL,
                                !.polling = TRUE, !.lastPartsReceived = 0,
                                !.sinceUpdate = 0, !.sinceProgress = 0,
                                !.jobId = TheJob])
     \/ /\ SetHook([Hook EXCEPT !.status = "error",
                                !.error = StartFailedMessage,
                                !.errorCalls = @ + 1])
        /\ UNCHANGED <<jobs, heap, orderedParts, currentTextPart, reasoningPart,
                       toolCalls, finishReason, born, pc>>
  /\ UNCHANGED <<dbAvailable, saved, seen, cancelled, thrown, beforeThrow,
                 inFlight, stopped, nonHookVars>>

\* pollJobStatus: the body of GET /job/:jobId, or null on 404
pollJobStatus(w, jobId) == Read(w, jobId)

\* the interval of startPolling fires one polling interval later: the
\* callback sends its poll, and the endpoint answers from the store
PollTick ==
  /\ pollingRef
  /\ Len(inFlight) < MaxInFlight
  /\ inFlight' = Append(inFlight, pollJobStatus(World, TheJob))
  /\ timeSinceLastUpdate' = Elapse(timeSinceLastUpdate)
  /\ timeSinceProgress' = Elapse(timeSinceProgress)
  /\ UNCHANGED <<hookStatus, hookError, pollingRef, lastPartsReceivedRef,
                 currentJobId, finishCalls, errorCalls, stopped, pollVars,
                 nonHookVars>>

\* the rest of the interval callback, once its poll has been answered with
\* jobStatus; the mutant never gives up on failed polls
onPollAnsweredNeverStale(h, jobStatus) ==
  IF jobStatus = NoRead THEN h
  ELSE LET seenNow == [h EXCEPT !.sinceUpdate = 0]
           progressed ==
             IF jobStatus.partsReceived > seenNow.lastPartsReceived
               THEN [seenNow EXCEPT
                       !.lastPartsReceived = jobStatus.partsReceived,
                       !.sinceProgress = 0]
               ELSE seenNow
       IN CASE jobStatus.status = "completed" ->
                 [progressed EXCEPT !.polling = FALSE, !.status = "idle",
                                    !.jobId = NULL, !.finishCalls = @ + 1]
            [] jobStatus.status = "error" ->
                 [progressed EXCEPT
                    !.polling = FALSE, !.status = "error",
                    !.error = IF jobStatus.error = NULL \/ jobStatus.error = ""
                                THEN "Chat failed" ELSE jobStatus.error,
                    !.errorCalls = @ + 1]
            [] OTHER -> progressed

onPollAnswered(h, jobStatus) ==
  IF jobStatus = NoRead
    THEN IF h.sinceUpdate > STALE_JOB_TIMEOUT_MS
           THEN [h EXCEPT !.polling = FALSE, !.status = "error",
                          !.jobId = NULL, !.error = TimeoutMessage,
                          !.errorCalls = @ + 1]
           ELSE h
    ELSE LET seenNow == [h EXCEPT !.sinceUpdate = 0]
             progressed ==
               IF jobStatus.partsReceived > seenNow.lastPartsReceived
                 THEN [seenNow EXCEPT
                         !.lastPartsReceived = jobStatus.partsReceived,
                         !.sinceProgress = 0]
                 ELSE seenNow
         IN CASE jobStatus.status = "completed" ->
                   [progressed EXCEPT !.polling = FALSE, !.status = "idle",
                                      !.jobId = NULL, !.finishCalls = @ + 1]
              [] jobStatus.status = "error" ->
                   [progressed EXCEPT
                      !.polling = FALSE, !.status = "error",
                      !.error = IF jobStatus.error = NULL \/ jobStatus.error = ""
                                  THEN "Chat failed" ELSE jobStatus.error,
                      !.errorCalls = @ + 1]
              [] OTHER -> progressed

\* the sequence s without its i-th element
Without(s, i) == SubSeq(s, 1, i - 1) \o SubSeq(s, i + 1, Len(s))

\* a poll is answered and the interval callback that sent it resumes; the
\* answers arrive in any order, and clearing the interval does not cancel a
\* callback that has already sent its poll
PollResponse ==
  /\ \E i \in 1..Len(inFlight) :
       /\ SetHook(onPollAnswered(Hook, inFlight[i]))
       /\ inFlight' = Without(inFlight, i)
  /\ UNCHANGED <<stopped, pollVars, nonHookVars>>

\* stop(): the interval is cleared, the cancel request is sent (it reaches
\* the endpoint or fails, which is only logged) and the hook goes idle
HookStop ==
  /\ hookStatus = "streaming"
  /\ ~stopped
  /\ stopped' = TRUE
  /\ SetHook([Hook EXCEPT !.polling = FALSE, !.status = "idle",
                          !.jobId = NULL])
  /\ \/ /\ hasJob(World, TheJob)
        /\ jobs[TheJob].status \in {"pending", "streaming"}
        /\ Commit(failJob(World, TheJob, "Cancelled by user"))
        /\ cancelled' = TRUE
     \/ UNCHANGED <<jobs, heap, orderedParts, currentTextPart, reasoningPart,
                    toolCalls, finishReason, born, cancelled>>
  /\ UNCHANGED <<pc, dbAvailable, saved, seen, thrown, beforeThrow, inFlight,
                 nonHookVars>>

PollInit ==
  /\ jobs = <<>>
  /\ heap = <<>>
  /\ pc = "idle"
  /\ dbAvailable = FALSE
  /\ saved = FALSE
  /\ orderedParts = <<>>
  /\ currentTextPart = 0
  /\ reasoningPart = 0
  /\ toolCalls = <<>>
  /\ finishReason = NULL
  /\ seen = <<>>
  /\ born = <<>>
  /\ cancelled = FALSE
  /\ thrown = NULL
  /\ beforeThrow = NoRead

PushInit ==
  /\ wsAuth = FALSE
  /\ wsOpen = TRUE
  /\ wpc = "connecting"
  /\ sent = <<>>
  /\ wsFullText = ""
  /\ wsFinishReason = NULL
  /\ heartbeatOn = FALSE
  /\ heartbeatCount = 0

BudgetIdle ==
  /\ history = <<>>
  /\ maxTokens = DefaultMaxTokens
  /\ kept = <<>>
  /\ bpc = "idle"

\* the budgeter is about to be called with some history and some ceiling
BudgetInit ==
  /\ history \in Histories(MaxHistory) \cup LongHistories
  /\ maxTokens \in Ceilings
  /\ kept = <<>>
  /\ bpc = "input"

ClientInit ==
  /\ cpc = "ready"
  /\ streamCursor = 0
  /\ lastPart = NULL
  /\ retryCount = 0
  /\ lastMessageId = NULL
  /\ toasts = <<>>
  /\ streams = 0
  /\ streamParts = 0
  /\ streamFinish = FALSE
  /\ lastFinish = NoFinish
  /\ interrupts = 0

StartInit ==
  /\ req = NoRequest
  /\ res = 0
  /\ owner = NULL
  /\ access = NoAccess

HookInit ==
  /\ hookStatus = "idle"
  /\ hookError = NULL
  /\ pollingRef = FALSE
  /\ lastPartsReceivedRef = 0
  /\ timeSinceLastUpdate = 0
  /\ timeSinceProgress = 0
  /\ currentJobId = NULL
  /\ inFlight = <<>>
  /\ finishCalls = 0
  /\ errorCalls = 0
  /\ stopped = FALSE

Init == PollInit /\ PushInit /\ BudgetIdle /\ ClientInit /\ StartInit /\ HookInit

Next ==
  \/ Start
  \/ Dispatch
  \/ BeginStreaming
  \/ ModelRejects
  \/ StreamPart
  \/ StreamThrows
  \/ StreamEnds
  \/ ResponseResolves
  \/ ResponseRejects
  \/ TextResolves
  \/ TextRejects
  \/ SaveResolves
  \/ SaveRejects
  \/ Cancel
  \/ Expire

Spec == Init /\ [][Next]_vars

\* a step of the processChat task: setImmediate runs its callback, and a
\* pending provider or persistence call returns or throws
LiveStreamPart == Len(seen) < MaxLiveEvents /\ StreamPart

ProcessChatStep ==
  \/ Dispatch
  \/ BeginStreaming
  \/ ModelRejects
  \/ LiveStreamPart
  \/ StreamThrows
  \/ StreamEnds
  \/ ResponseResolves
  \/ ResponseRejects
  \/ TextResolves
  \/ TextRejects
  \/ SaveResolves
  \/ SaveRejects

\* the task is scheduled by the event loop and each of its awaits settles
Fairness == WF_vars(ProcessChatStep)

NextLive ==
  \/ Start
  \/ ProcessChatStep
  \/ Cancel
  \/ Expire

SpecLive == Init /\ [][NextLive]_vars /\ Fairness

NextPush ==
  \/ WsConnect
  \/ AuthMessage
  \/ ChatRequest
  \/ Heartbeat
  \/ WsClose
  \/ WsModelResolves
  \/ WsModelRejects
  \/ WsConvertResolves
  \/ WsConvertRejects
  \/ WsChunk
  \/ WsStreamThrows
  \/ WsStreamEnds
  \/ WsResponseResolves
  \/ WsResponseRejects
  \/ WsToolCallsSettle
  \/ WsSaveSettles

SpecPush == Init /\ [][NextPush]_vars

NextBudget ==
  \/ Truncate
  \/ TruncateAgain
  \/ PrepareHistory

InitBudget ==
  PollInit /\ PushInit /\ BudgetInit /\ ClientInit /\ StartInit /\ HookInit

SpecBudget == InitBudget /\ [][NextBudget]_vars

NextStart ==
  \/ StartRequest
  \/ Dispatch

SpecStart == Init /\ [][NextStart]_vars

NextAccess ==
  \/ \E user \in Users : StartBy(user)
  \/ \E user \in Users \cup {NULL} : GetJob(user)
  \/ \E user \in Users \cup {NULL} : CancelJob(user)
  \/ Dispatch
  \/ BeginStreaming
  \/ ModelRejects
  \/ StreamEnds
  \/ ResponseResolves
  \/ TextResolves
  \/ Expire

SpecAccess == Init /\ [][NextAccess]_vars

NextBoth ==
  \/ Start
  \/ Dispatch
  \/ WsConnect
  \/ AuthMessage
  \/ ChatRequest
  \/ BothModelResolve
  \/ BothModelReject
  \/ BothConvertResolve
  \/ BothConvertReject
  \/ BothStreamPart
  \/ BothStreamThrow
  \/ BothStreamEnd
  \/ BothResponseResolve
  \/ BothResponseReject
  \/ TextResolves
  \/ TextRejects
  \/ SaveResolves
  \/ SaveRejects
  \/ WsToolCallsSettle
  \/ WsSaveSettles

SpecBoth == Init /\ [][NextBoth]_vars

NextHook ==
  \/ AsyncSendMessage
  \/ PollTick
  \/ PollResponse
  \/ HookStop
  \/ Dispatch
  \/ BeginStreaming
  \/ ModelRejects
  \/ StreamEnds
  \/ ResponseResolves
  \/ TextResolves
  \/ Expire

SpecHook == Init /\ [][NextHook]_vars

\* the polling client under fair scheduling: the interval keeps firing
\* while it is set, every poll is answered, and the steps of processChat
\* settle
HookServerStep ==
  \/ Dispatch
  \/ BeginStreaming
  \/ ModelRejects
  \/ StreamEnds
  \/ ResponseResolves
  \/ TextResolves

\* a tick of the interval once the previous poll has been answered
SerialPollTick == inFlight = <<>> /\ PollTick

HookFairness ==
  /\ WF_vars(SerialPollTick)
  /\ WF_vars(PollResponse)
  /\ WF_vars(HookServerStep)

NextHookLive ==
  \/ AsyncSendMessage
  \/ SerialPollTick
  \/ PollResponse
  \/ HookStop
  \/ HookServerStep
  \/ Expire

SpecHookLive == Init /\ [][NextHookLive]_vars /\ HookFairness

NextClient ==
  \/ SendMessage
  \/ OnStreamPart
  \/ ChatFinishes
  \/ RetryFires

SpecClient == Init /\ [][NextClient]_vars

TypeOK ==
  /\ pc \in {"idle", "scheduled", "model", "stream", "response", "text",
             "save", "done", "failed"}
  /\ DOMAIN jobs \subseteq JobIds
  /\ Len(seen) <= MaxEvents
  /\ wpc \in {"connecting", "idle", "rejected", "model", "convert", "stream", "response",
              "toolCalls", "save", "finished"}
  /\ heartbeatCount <= MaxHeartbeats

\* ------------------------------------------------------------------------
\* Properties
\* ------------------------------------------------------------------------
JobExists == hasJob(World, TheJob)
Job == ReadJob(World, TheJob)

\* C1: once the status of a job is completed or error, no later step sets
\* it to pending or streaming.
C1_StatusNeverRegresses ==
  [][(/\ JobExists
      /\ jobs[TheJob].status \in {"completed", "error"}
      /\ TheJob \in DOMAIN jobs')
        => jobs'[TheJob].status \notin {"pending", "streaming"}]_vars

\* C2: after the cancel endpoint failed a pending or streaming job, every
\* read of the job reports status error, whatever the background task does.
C2_CancelledStaysError ==
  (cancelled /\ JobExists) => Job.status = "error"

\* C3: when processChat caught an exception, the job is in status error with
\* the captured error text, and the parts, the plain text and the
\* parts-received counter are those a read returned before the exception.
C3_FailureKeepsParts ==
  (pc = "failed" /\ JobExists) =>
    /\ Job.status = "error"
    /\ Job.error = ErrorText(thrown)
    /\ Job.parts = beforeThrow.parts
    /\ Job.partialText = beforeThrow.partialText
    /\ Job.partsReceived = beforeThrow.partsReceived

C3_Witness ==
  /\ pc = "failed"
  /\ JobExists
  /\ thrown = "boom"
  /\ Len(seen) >= 2
  /\ Len(Job.parts) >= 2
  /\ Job.partialText # ""

ErrorSeen(evs) == \E i \in 1..Len(evs) : evs[i].type = "error"

\* C4: a job whose provider stream reported an in-stream error event never
\* ends in status completed.
C4_StreamErrorFailsJob ==
  (ErrorSeen(seen) /\ JobExists) => Job.status # "completed"

\* position of a reference in an array of references, 0 when absent
IndexOf(arr, ref) ==
  IF \E i \in 1..Len(arr) : arr[i] = ref
    THEN CHOOSE i \in 1..Len(arr) : arr[i] = ref
    ELSE 0

\* C6: two parts that a read of the job returns keep their relative order in
\* every later read.
C6_PartsNeverReordered ==
  [][(JobExists /\ TheJob \in DOMAIN jobs') =>
       LET old == jobs[TheJob].parts
           new == jobs'[TheJob].parts
       IN \A i, k \in 1..Len(old) :
            (i < k /\ IndexOf(new, old[i]) # 0 /\ IndexOf(new, old[k]) # 0)
              => IndexOf(new, old[i]) < IndexOf(new, old[k])]_vars

\* C7: after a provider stream that ended naturally the job is completed, its
\* plain text is the concatenation of the text-delta payloads in arrival
\* order, and its finish reason is the one of the finish event.
C7_TextIsConcatenation ==
  (pc = "done" /\ JobExists) =>
    /\ Job.status = "completed"
    /\ Job.partialText = TextOf(seen)
    /\ \A i \in 1..Len(seen) :
         seen[i].type = "finish" => Job.finishReason = seen[i].finishReason

C7_Witness ==
  /\ pc = "done"
  /\ JobExists
  /\ Job.status = "completed"
  /\ Job.partialText = "Hello world"
  /\ Job.finishReason = "stop"
  /\ Len(seen) = 3

\* the tool parts with call id x in a part list
ToolPartsOf(parts, x) ==
  {n \in 1..Len(parts) : parts[n].type = "dynamic-tool" /\ parts[n].toolCallId = x}

\* a tool-call event for x was followed by a tool-result event for x
CallThenResult(evs, x) ==
  \E i, k \in 1..Len(evs) :
    /\ i < k
    /\ evs[i].type = "tool-call" /\ evs[i].toolCallId = x
    /\ evs[k].type = "tool-result" /\ evs[k].toolCallId = x

\* C8: when a tool-call event with id x was followed by a tool-result event
\* with id x, the final part list holds exactly one tool part with id x, in
\* state output-available and carrying a result delivered for x.
C8_OneResolvedToolPart ==
  (pc = "done" /\ JobExists) =>
    \A x \in ToolCallIds :
      CallThenResult(seen, x) =>
        /\ Cardinality(ToolPartsOf(Job.parts, x)) = 1
        /\ \A n \in ToolPartsOf(Job.parts, x) :
             /\ Job.parts[n].state = "output-available"
             /\ \E k \in 1..Len(seen) :
                  /\ seen[k].type = "tool-result"
                  /\ seen[k].toolCallId = x
                  /\ seen[k].result = Job.parts[n].result

\* the call an event resolves is already resolved with the event's result
AlreadyResolved(e) ==
  /\ e.type = "tool-result"
  /\ e.toolCallId \in DOMAIN toolCalls
  /\ heap[toolCalls[e.toolCallId]].state = "output-available"
  /\ heap[toolCalls[e.toolCallId]].result = e.result

\* C9: processing a tool-result event whose call is already resolved with
\* that result changes neither the part objects, nor the part lists, nor
\* anything the processing of later events depends on.
C9_DuplicateResultNoOp ==
  [][(/\ Len(seen') = Len(seen) + 1
      /\ AlreadyResolved(seen'[Len(seen')]))
        => /\ heap' = heap
           /\ orderedParts' = orderedParts
           /\ toolCalls' = toolCalls
           /\ currentTextPart' = currentTextPart
           /\ reasoningPart' = reasoningPart
           /\ finishReason' = finishReason
           /\ DOMAIN jobs' = DOMAIN jobs
           /\ JobExists =>
                /\ jobs'[TheJob].parts = jobs[TheJob].parts
                /\ jobs'[TheJob].partialText = jobs[TheJob].partialText
                /\ jobs'[TheJob].status = jobs[TheJob].status]_vars

C9_Witness ==
  /\ pc = "done"
  /\ JobExists
  /\ Len(seen) = 3
  /\ seen[1].type = "tool-call"
  /\ seen[2].type = "tool-result"
  /\ seen[2].toolCallId = seen[1].toolCallId
  /\ seen[3] = seen[2]
  /\ Len(Job.parts) = 1
  /\ Job.parts[1].state = "output-available"

\* C10: in the final part list of a completed job every reasoning part
\* precedes every text part that was opened after the reasoning part.
C10_ReasoningBeforeLaterText ==
  (JobExists /\ jobs[TheJob].status = "completed") =>
    LET final == jobs[TheJob].parts
    IN \A i, k \in 1..Len(final) :
         (/\ heap[final[i]].type = "reasoning"
          /\ heap[final[k]].type = "text"
          /\ born[final[k]] > born[final[i]])
           => i < k

C10_Witness ==
  /\ JobExists
  /\ jobs[TheJob].status = "completed"
  /\ LET final == jobs[TheJob].parts
     IN /\ Len(final) = 3
        /\ \E i, k, n \in 1..3 :
             /\ heap[final[i]].type = "reasoning"
             /\ heap[final[k]].type = "text"
             /\ born[final[k]] > born[final[i]]
             /\ born[final[n]] < born[final[i]]

\* ------------------------------------------------------------------------
\* Properties of the push transport
\* ------------------------------------------------------------------------
Terminals == {i \in 1..Len(sent) : sent[i].type \in {"done", "error"}}

\* C5 as stated: exactly one of done and error is sent for a generation and
\* no event is sent after it.
C5_TerminalEventIsLast ==
  /\ Cardinality(Terminals) <= 1
  /\ wpc \in {"finished", "rejected"} => Cardinality(Terminals) = 1
  /\ \A i \in Terminals : i = Len(sent)

\* C5 as amended: exactly one of done and error is sent for a generation; the
\* only event that can follow it is one warning, after a done whose finish
\* reason is 'length'.
C5_TerminalThenOnlyWarning ==
  /\ Cardinality(Terminals) <= 1
  /\ wpc \in {"finished", "rejected"} => Cardinality(Terminals) = 1
  /\ \A i \in Terminals :
       \/ i = Len(sent)
       \/ /\ Len(sent) = i + 1
          /\ sent[i].type = "done"
          /\ sent[i].data = "length"
          /\ sent[i + 1].type = "warning"

C5_Witness ==
  /\ wsAuth
  /\ wpc = "finished"
  /\ Len(sent) >= 2
  /\ sent[Len(sent)].type = "warning"
  /\ sent[Len(sent) - 1].type = "done"
  /\ \E i \in 1..Len(sent) : sent[i].type = "heartbeat"
  /\ \E i \in 1..Len(sent) : sent[i].type = "text_delta"

\* ------------------------------------------------------------------------
\* Properties of the token budgeter
\* ------------------------------------------------------------------------
\* counted tokens of one entry and of a whole history
MessageTokens(message) == countMessageTokens(message, TRUE).tokens

RECURSIVE HistoryTokens(_, _)
HistoryTokens(messages, i) ==
  IF i > Len(messages)
    THEN 0
    ELSE MessageTokens(messages[i]) + HistoryTokens(messages, i + 1)

\* the entry of the input that the k-th returned entry stands for, when the
\* result is a suffix of the input
InputOf(input, output, k) == input[Len(input) - Len(output) + k]

\* output keeps the minimum context of input
KeepsMinimum(input, output) ==
  /\ Len(input) >= 2 => Len(output) >= 2
  /\ Len(input) >= 1 =>
       /\ Len(output) >= 1
       /\ output[Len(output)] \in
            {input[Len(input)], countMessageTokens(input[Len(input)], TRUE).message}

\* C11: every call of truncateMessages, whatever the token sizes and the
\* ceiling, returns at least 2 entries when it was given at least 2, and its
\* last entry is the newest entry of the input.
C11_NeverFewerThanTwo ==
  [][/\ bpc' = "truncated" => KeepsMinimum(history, kept')
     /\ bpc' = "again" => KeepsMinimum(kept, kept')
     /\ bpc' = "prepared" =>
          KeepsMinimum(filterIncompleteToolCalls(history), kept')]_vars

\* an older entry was dropped although the newest entry alone exceeds the
\* ceiling: the second entry was forced in
C11_Witness ==
  /\ bpc = "truncated"
  /\ Len(history) = 3
  /\ Len(kept) = 2
  /\ MessageTokens(history[3]) > maxTokens

OutputWithinCeiling(input, output, k, i) ==
  LET given == InputOf(input, output, k).parts[i].output IN
  (given # Undefined /\ EncodeLength(given) > ToolOutputMaxTokens)
    => output[k].parts[i].output =
         truncateToolOutput(given, ToolOutputMaxTokens).value

\* C13: in the history truncateMessages returns, every tool output that
\* exceeds the per-output ceiling has been replaced by its truncated text
\* plus the marker, whether or not older entries were dropped.
C13_LargeOutputsTruncated ==
  bpc = "truncated" =>
    \A k \in 1..Len(kept) : \A i \in 1..Len(kept[k].parts) :
      OutputWithinCeiling(history, kept, k, i)

\* every part of the turn is a tool call without a result
AllIncomplete(message) ==
  /\ Len(message.parts) > 0
  /\ \A i \in 1..Len(message.parts) : ~HasResult(message.parts[i])

\* C14: in the history processChat hands to the provider call no assistant
\* turn holds a tool-call part without output or result, an assistant turn
\* whose parts were all such tool calls holds exactly the placeholder text
\* part, and user turns are the ones that were given.
C14_NoIncompleteToolCalls ==
  bpc = "prepared" =>
    \A k \in 1..Len(kept) :
      LET given == InputOf(history, kept, k) IN
      /\ kept[k].role = given.role
      /\ kept[k].role = "assistant" =>
           \A i \in 1..Len(kept[k].parts) : HasResult(kept[k].parts[i])
      /\ (given.role = "assistant" /\ AllIncomplete(given)) =>
           kept[k].parts = <<InterruptedPlaceholder>>
      /\ given.role = "user" => kept[k] = given

\* the history user, assistant with an unresolved tool call, user went
\* through: the middle turn now holds the placeholder
C14_Witness ==
  /\ bpc = "prepared"
  /\ Len(history) = 3
  /\ history[1].role = "user"
  /\ history[2].role = "assistant"
  /\ AllIncomplete(history[2])
  /\ history[3].role = "user"
  /\ Len(kept) = 3
  /\ kept[2].parts = <<InterruptedPlaceholder>>

\* ------------------------------------------------------------------------
\* Properties of the chat client
\* ------------------------------------------------------------------------
\* this step is a call of onFinish; its argument is lastFinish'
FinishStep == cpc = "streaming" /\ cpc' # "streaming"

\* the onFinish call of this step has set the retry timer
RegenerateScheduled == cpc' = "backoff"

\* C15: of consecutive ambiguous interruptions of the same message the first
\* and the second each schedule a regenerate and the third schedules none.
C15_ExactlyTwoRetries ==
  [][(/\ FinishStep
      /\ AmbiguousInterruption(lastFinish')
      /\ (interrupts = 0 \/ lastFinish'.messageId = lastFinish.messageId))
       => (RegenerateScheduled <=> interrupts < MaxRetries)]_vars

\* C16: an ambiguous interruption that finds the retry counter at the
\* maximum makes onFinish show the partial-result warning.
C16_ExhaustedShowsWarning ==
  [][(/\ FinishStep
      /\ AmbiguousInterruption(lastFinish')
      /\ retryCount >= MaxRetries)
       => (/\ ~RegenerateScheduled
           /\ toasts' = Append(toasts, "warning"))]_vars

\* C17: when more stream parts than the substantial threshold were received
\* and the connection then drops without a finish part, onFinish schedules
\* no retry, shows nothing and completes the turn.
C17_SubstantialNotRetried ==
  [][(/\ FinishStep
      /\ lastFinish'.isDisconnect
      /\ ~streamFinish
      /\ streamParts > SUBSTANTIAL_CONTENT_THRESHOLD)
       => (/\ ~RegenerateScheduled
           /\ cpc' = "ready"
           /\ streamCursor' = 0
           /\ toasts' = toasts)]_vars

\* a stream of more than 50 parts without a finish part ended on a network
\* failure and the turn is complete
C17_Witness ==
  /\ cpc = "ready"
  /\ lastFinish.isDisconnect
  /\ ~lastFinish.hasOAuthError
  /\ ~streamFinish
  /\ streamParts > SUBSTANTIAL_CONTENT_THRESHOLD
  /\ streamCursor = 0

\* C18: a stream end that is clean (its finish part was received), aborted
\* by the user or a credential error never schedules a regenerate, whatever
\* the retry counter and the number of parts are.
C18_OnlyAmbiguousRetries ==
  [][(/\ FinishStep
      /\ (streamFinish \/ lastFinish'.isAbort \/ lastFinish'.hasOAuthError))
       => ~RegenerateScheduled]_vars

\* a credential error ended a stream on a network failure, after a retry and
\* with parts received but no finish part, and nothing was scheduled
C18_Witness ==
  /\ cpc = "ready"
  /\ lastFinish.hasOAuthError
  /\ lastFinish.isDisconnect
  /\ retryCount = 1
  /\ streamParts > 0
  /\ ~streamFinish

\* C19: a stream that ends as an ambiguous interruption, with the retry
\* counter below the maximum and the turn being the first interruption or
\* the message of the previous retry, gets an automatic retry and the
\* retrying notice, nothing else.
C19_AmbiguousIsRetried ==
  [][(/\ FinishStep
      /\ AmbiguousInterruption(lastFinish')
      /\ retryCount < MaxRetries
      /\ (lastMessageId = NULL \/ lastFinish'.messageId = lastMessageId))
       => (/\ RegenerateScheduled
           /\ toasts' = Append(toasts, "info"))]_vars

\* ------------------------------------------------------------------------
\* Properties of the retention window
\* ------------------------------------------------------------------------
\* the job was created and the retention timer has removed it
Expired == pc # "idle" /\ ~JobExists

\* C20: the retention timer of createJob can fire whatever the job's status
\* is and whether or not it was read, it leaves the job not found, and no
\* later step of the orchestrator or of the cancel endpoint makes an expired
\* job readable again.
C20_ExpiredStaysUnreachable ==
  [][/\ JobExists =>
          /\ ENABLED Expire
          /\ ~hasJob(CleanupExpired(World, TheJob), TheJob)
     /\ Expired =>
          /\ ~JobExists'
          /\ Read(World, TheJob)' = NoRead]_vars

\* the stream delivered events and threw after the job had expired: the
\* catch block's failJob found no job and the job is still not found
C20_Witness ==
  /\ Expired
  /\ pc = "failed"
  /\ thrown # NULL
  /\ beforeThrow = NoRead
  /\ Len(seen) >= 2

\* ------------------------------------------------------------------------
\* Properties of the start endpoint and of finalization
\* ------------------------------------------------------------------------
\* C21: when the start endpoint has sent its response the job is in the
\* store with status pending, no parts and no text, and processChat has not
\* been dispatched yet.
C21_PendingBeforeGeneration ==
  [][(pc = "idle" /\ pc' # "idle") =>
       /\ pc' = "scheduled"
       /\ JobExists'
       /\ Read(World, TheJob)'.status = "pending"
       /\ Read(World, TheJob)'.parts = <<>>
       /\ Read(World, TheJob)'.partialText = ""
       /\ Read(World, TheJob)'.partsReceived = 0
       /\ seen' = <<>>]_vars

\* the response has been sent and the setImmediate callback has not run
C21_Witness ==
  /\ pc = "scheduled"
  /\ JobExists
  /\ Job.status = "pending"

\* a required field of the request is missing
MissingField(r) == ~r.id \/ r.messages = NULL \/ ~r.selectedChatModel

\* the access check denies the requester: not allowed to a conversation that
\* exists, or the conversation is owned by another user
AccessDenied(r) ==
  \/ r.reason # "not_found" /\ ~r.allowed
  \/ r.chat = "other"

\* C22: a start request with a missing required field, or whose conversation
\* access check denies the user, creates no job and dispatches no generation.
C22_RejectedCreatesNoJob ==
  (res # 0 /\ (MissingField(req) \/ AccessDenied(req)))
    => (res # 200 /\ ~JobExists /\ pc = "idle")

\* a complete request of a user with a session was denied because the
\* conversation belongs to someone else
C22_Witness ==
  /\ res = 403
  /\ ~MissingField(req)
  /\ req.session
  /\ req.allowed
  /\ req.chat = "other"
  /\ ~JobExists

\* C23: when saveMessages or updateChatLastContextById fails after the
\* stream ended, the job (if it is still in the store) becomes completed with
\* the message id and the finish reason, and an error field that was null
\* stays null.
C23_PersistenceFailureCompletes ==
  [][(pc = "save" /\ pc' = "done" /\ ~saved' /\ JobExists) =>
       /\ JobExists'
       /\ Job'.status = "completed"
       /\ Job'.messageId = TheMessageId
       /\ Job'.finishReason = (IF finishReason = NULL THEN "stop" ELSE finishReason)
       /\ Job.error = NULL => Job'.error = NULL]_vars

\* the database was available, the save failed, and the job is completed
\* with the provider's finish reason and no error
C23_Witness ==
  /\ pc = "done"
  /\ dbAvailable
  /\ ~saved
  /\ JobExists
  /\ Job.status = "completed"
  /\ Job.finishReason = "length"
  /\ Job.error = NULL
  /\ Len(Job.parts) > 0

\* ------------------------------------------------------------------------
\* Both transports
\* ------------------------------------------------------------------------
\* both handlers have run to their end on the same request and provider
BothTerminal == pc \in {"done", "failed"} /\ wpc = "finished" /\ JobExists

Emitted(type) == \E i \in 1..Len(sent) : sent[i].type = type

\* C24: for the same inputs and the same provider event stream the poll job
\* ends completed exactly when the push channel emits done and ends error
\* exactly when it emits error, and the finish reason of the completed job
\* equals the finish reason of the done event.
C24_SameTerminalOutcome ==
  BothTerminal =>
    /\ (Job.status = "completed") <=> Emitted("done")
    /\ (Job.status = "error") <=> Emitted("error")
    /\ Job.status = "completed" =>
         \A i \in 1..Len(sent) :
           sent[i].type = "done" => sent[i].data = Job.finishReason

\* the part of C24 the code keeps: the same kind of outcome, and the same
\* finish reason whenever onFinish reported one
SameOutcomeKind ==
  BothTerminal =>
    /\ (Job.status = "completed") <=> Emitted("done")
    /\ (Job.status = "error") <=> Emitted("error")
    /\ (Job.status = "completed" /\ wsFinishReason # NULL) =>
         \A i \in 1..Len(sent) :
           sent[i].type = "done" => sent[i].data = Job.finishReason

\* ------------------------------------------------------------------------
\* Polling client
\* ------------------------------------------------------------------------
\* C25: when the parts-received counter the client sees has not increased
\* for longer than the stale timeout while it polls, the client stops
\* polling and surfaces the timeout message; the job on the server is not
\* changed by this.
C25_StaleStopsPolling ==
  [][(/\ pollingRef
      /\ Len(inFlight') < Len(inFlight)
      /\ \A i \in 1..Len(inFlight) :
           inFlight[i] # NoRead =>
             inFlight[i].status \notin {"completed", "error"}
      /\ timeSinceProgress' > STALE_JOB_TIMEOUT_MS) =>
       /\ ~pollingRef'
       /\ hookError' = TimeoutMessage
       /\ jobs' = jobs]_vars

\* what the callback does instead: it gives up only when polls have failed
\* for longer than the stale timeout
FailedPollsStopPolling ==
  [][(/\ pollingRef
      /\ Len(inFlight') < Len(inFlight)
      /\ \A i \in 1..Len(inFlight) : inFlight[i] = NoRead
      /\ timeSinceLastUpdate > STALE_JOB_TIMEOUT_MS) =>
       /\ ~pollingRef'
       /\ hookError' = TimeoutMessage
       /\ jobs' = jobs]_vars

\* ------------------------------------------------------------------------
\* Cancellation
\* ------------------------------------------------------------------------
\* C26: a cancel request changes the job only while it is pending or
\* streaming: on a completed or failed job it changes no field, and after
\* any cancel a further cancel changes nothing (two cancels equal one).
C26_CancelOnlyWhileActive ==
  [][Cancel =>
       /\ Job.status \notin {"pending", "streaming"} =>
            Read(World, TheJob)' = Read(World, TheJob)
       /\ Job.status \in {"pending", "streaming"} =>
            /\ Job'.status = "error"
            /\ Job'.error = "Cancelled by user"
       /\ Job'.status \notin {"pending", "streaming"}]_vars

\* a cancel has failed the job, and the endpoint can be called again
C26_Witness ==
  /\ JobExists
  /\ cancelled
  /\ Job.status = "error"
  /\ Job.error = "Cancelled by user"
  /\ ENABLED Cancel

\* ------------------------------------------------------------------------
\* Termination
\* ------------------------------------------------------------------------
\* C27: every job whose generation was dispatched eventually reaches a
\* terminal status, completed or error, when the provider and persistence
\* calls settle and unless the job is evicted first; and an error thrown in
\* processChat is written into the job.
C27_DispatchedJobTerminates ==
  /\ (pc = "model") ~>
       (\/ ~JobExists
        \/ /\ pc \in {"done", "failed"}
           /\ Job.status \in {"completed", "error"})
  /\ [](pc = "failed" /\ JobExists =>
          Job.status = "error" /\ Job.error = ErrorText(thrown))

\* a dispatched job that was not evicted, after processChat has returned
C27_Witness ==
  /\ pc \in {"done", "failed"}
  /\ JobExists
  /\ Job.status \in {"completed", "error"}

\* ------------------------------------------------------------------------
\* Plain text and part sequence
\* ------------------------------------------------------------------------
RECURSIVE TextOfParts(_)
\* the concatenation, in list order, of the text of the parts of type text
TextOfParts(parts) ==
  IF parts = <<>> THEN ""
  ELSE LET p == parts[Len(parts)]
       IN TextOfParts(SubSeq(parts, 1, Len(parts) - 1)) \o
            (IF p.type = "text" THEN p.text ELSE "")

\* C28: in every state a reader can observe the plain-text field of the job
\* equals the concatenation, in list order, of the text of all parts of
\* type text in the job's part list.
C28_TextIsProjectionOfParts ==
  JobExists => Job.partialText = TextOfParts(Job.parts)

\* C29: no two tool-call parts of one job's part sequence share a call id,
\* in the live part list as in the final one.
C29_ToolCallIdsUnique ==
  JobExists =>
    \A i, k \in 1..Len(Job.parts) :
      (/\ Job.parts[i].type = "dynamic-tool"
       /\ Job.parts[k].type = "dynamic-tool"
       /\ Job.parts[i].toolCallId = Job.parts[k].toolCallId) => i = k

\* ------------------------------------------------------------------------
\* Token budgeter: suffix and ceiling
\* ------------------------------------------------------------------------
\* output is a contiguous suffix of input in the original order: its k-th
\* entry is the entry of input at that place, as given or with its tool
\* outputs truncated
IsSuffix(input, output) ==
  /\ Len(output) <= Len(input)
  /\ \A k \in 1..Len(output) :
       output[k] \in {InputOf(input, output, k),
                      countMessageTokens(InputOf(input, output, k), TRUE).message}

\* C30: the history truncateMessages returns is a contiguous suffix of its
\* input in the original order, and its counted token total is at most the
\* ceiling whenever it has more than 2 entries: the ceiling is exceeded only
\* through the forced inclusion of the 2 newest entries.
C30_SuffixWithinCeiling ==
  bpc = "truncated" =>
    /\ IsSuffix(history, kept)
    /\ Len(kept) > 2 => HistoryTokens(kept, 1) <= maxTokens

\* what the loop of truncateMessages keeps within the ceiling: the tokens it
\* counted, those of the entries as they were given
CountedWithinCeiling ==
  bpc = "truncated" =>
    /\ IsSuffix(history, kept)
    /\ Len(kept) > 2 =>
         HistoryTokens(history, Len(history) - Len(kept) + 1) <= maxTokens

\* ------------------------------------------------------------------------
\* Terminal transitions
\* ------------------------------------------------------------------------
\* C31: a job's status becomes completed only through completeJob (at the
\* end of processChat, with the message id and a finish reason) and becomes
\* error only through failJob (the catch block of processChat or the cancel
\* endpoint, with an error text); updateJobStatus sets streaming only.
C31_TerminalOnlyByCompleteOrFail ==
  [][/\ (Read(World, TheJob)'.status = "completed"
           /\ Read(World, TheJob).status # "completed") =>
          /\ pc # "done" /\ pc' = "done"
          /\ jobs' = completeJob([World EXCEPT !.jobs = jobs'], TheJob,
                                 TheMessageId, Job'.finishReason).jobs
          /\ Job'.finishReason # NULL
     /\ (Read(World, TheJob)'.status = "error"
           /\ Read(World, TheJob).status # "error") =>
          /\ jobs' = failJob(World, TheJob, Job'.error).jobs
          /\ Job'.error # NULL
          /\ \/ pc # "failed" /\ pc' = "failed"
             \/ cancelled' /\ Job'.error = "Cancelled by user"
     /\ (pc = "model" /\ pc' = "stream" /\ JobExists) =>
          jobs' = updateJobStatus(World, TheJob, "streaming").jobs]_vars

\* processChat has completed a job through completeJob
C31_Witness ==
  /\ pc = "done"
  /\ JobExists
  /\ Job.status = "completed"
  /\ Job.messageId = TheMessageId

\* ------------------------------------------------------------------------
\* Events of the provider stream
\* ------------------------------------------------------------------------
\* the job holds a tool call with this id that has no result yet
OpenToolCall(id) ==
  /\ JobExists
  /\ \E i \in 1..Len(Job.parts) :
       /\ Job.parts[i].type = "dynamic-tool"
       /\ Job.parts[i].toolCallId = id
       /\ Job.parts[i].state = "input-available"

\* an event that maps to no part update: of a type the switch does not
\* know, or a tool-result whose call id matches no open tool call
MapsToNoUpdate(e) ==
  \/ e.type = "raw"
  \/ e.type = "tool-result" /\ ~OpenToolCall(e.toolCallId)

\* the step processes one more event of the stream
EventStep == Len(seen') = Len(seen) + 1

\* C32: an event that maps to no part update leaves the job's part list,
\* plain text, parts-received counter and status unchanged and raises no
\* exception: processing continues with the next event.
C32_NoUpdateEventIsNoOp ==
  [][(EventStep /\ MapsToNoUpdate(seen'[Len(seen')])) =>
       /\ Read(World, TheJob)' = Read(World, TheJob)
       /\ pc' = "stream"
       /\ thrown' = thrown]_vars

\* what holds for the events the handler itself drops: unknown types and
\* tool results whose call id was never seen
DroppedEventIsNoOp ==
  [][(/\ EventStep
      /\ LET e == seen'[Len(seen')] IN
           \/ e.type = "raw"
           \/ e.type = "tool-result" /\ e.toolCallId \notin DOMAIN toolCalls) =>
       /\ Read(World, TheJob)' = Read(World, TheJob)
       /\ pc' = "stream"
       /\ thrown' = thrown]_vars

\* C33: in the state right after a tool-call event is processed, before any
\* later event, a read of the job returns a part with that call id in
\* state input-available.
C33_ToolCallVisibleAtOnce ==
  [][(/\ EventStep
      /\ seen'[Len(seen')].type = "tool-call"
      /\ JobExists') =>
       \E i \in 1..Len(Job'.parts) :
         /\ Job'.parts[i].type = "dynamic-tool"
         /\ Job'.parts[i].toolCallId = seen'[Len(seen')].toolCallId
         /\ Job'.parts[i].state = "input-available"]_vars

\* mid-stream, the last event processed is a tool call and a read shows it
C33_Witness ==
  /\ pc = "stream"
  /\ seen # <<>>
  /\ seen[Len(seen)].type = "tool-call"
  /\ OpenToolCall(seen[Len(seen)].toolCallId)

\* ------------------------------------------------------------------------
\* Progress counter
\* ------------------------------------------------------------------------
\* C34: the parts-received counter of a job never decreases, and whenever
\* two reads of the job differ in the part list or in the plain text the
\* counter has strictly increased between them (step by step: every step
\* that changes what a read returns of either raises the counter).
C34_CounterDetectsProgress ==
  [][(JobExists /\ JobExists') =>
       /\ Job'.partsReceived >= Job.partsReceived
       /\ (Job'.parts # Job.parts \/ Job'.partialText # Job.partialText) =>
            Job'.partsReceived > Job.partsReceived]_vars

\* a tool call was shown and resolved in place, and the list was handed over
C34_Witness ==
  /\ JobExists
  /\ pc = "done"
  /\ Job.partsReceived >= 3
  /\ \E i \in 1..Len(Job.parts) : Job.parts[i].state = "output-available"

\* ------------------------------------------------------------------------
\* Chat client: per-attempt counters
\* ------------------------------------------------------------------------
\* C35: the event count compared against the substantial-content threshold
\* and the last part used to detect a missing finish event describe only
\* the current generation attempt: while an attempt streams, the count is
\* the number of parts of this attempt and the last part is a finish part
\* only if this attempt received one.
C35_CountersDescribeCurrentAttempt ==
  cpc = "streaming" =>
    /\ streamCursor = streamParts
    /\ (lastPart = "finish") <=> streamFinish

\* C36: whenever a turn ends without scheduling an automatic retry, the
\* retry counter is 0 and the remembered message id is cleared.
C36_TurnEndResetsRetryState ==
  [][(cpc = "streaming" /\ cpc' = "ready") =>
       /\ retryCount' = 0
       /\ lastMessageId' = NULL]_vars

\* what holds on the path that is neither an abort nor a credential error
TurnEndResetsUnlessAbortOrCredential ==
  [][(/\ cpc = "streaming"
      /\ cpc' = "ready"
      /\ ~lastFinish'.isAbort
      /\ ~lastFinish'.hasOAuthError) =>
       /\ retryCount' = 0
       /\ lastMessageId' = NULL]_vars

\* ------------------------------------------------------------------------
\* Polling client: overlapping polls, stop() and termination
\* ------------------------------------------------------------------------
\* C37: for any interleaving of interval ticks and poll answers, including
\* ticks that fire while an earlier poll is in flight, the terminal handling
\* of a job runs at most once: onFinish is called at most once and onError
\* at most once.
C37_TerminalHandlingOnce ==
  /\ finishCalls <= 1
  /\ errorCalls <= 1

\* what holds: the terminal handling runs once per answer that shows the
\* job terminal (or the stale timeout), so at most once per poll sent
TerminalHandlingOncePerPoll ==
  [][/\ finishCalls' + errorCalls' <= finishCalls + errorCalls + 1
     /\ (finishCalls' + errorCalls' > finishCalls + errorCalls) =>
          \/ Len(inFlight') < Len(inFlight)
          \/ hookError' = StartFailedMessage]_vars

\* C38: once stop() has been called, a late answer to a poll of that job
\* changes no client state: not the status, the error, the current job id
\* or the progress shown, and neither onFinish nor onError is called.
C38_LateAnswerAfterStopIgnored ==
  [][(stopped /\ Len(inFlight') < Len(inFlight)) =>
       /\ hookStatus' = hookStatus
       /\ hookError' = hookError
       /\ currentJobId' = currentJobId
       /\ lastPartsReceivedRef' = lastPartsReceivedRef
       /\ finishCalls' = finishCalls
       /\ errorCalls' = errorCalls]_vars

\* what holds: after stop() no further poll is sent
NoPollSentAfterStop ==
  [][stopped => Len(inFlight') <= Len(inFlight)]_vars

C40_OnlyOwnerReadsAndCancels ==
  [][\A user \in Users \ {owner} :
       /\ GetJob(user) => access'.body = NoRead
       /\ CancelJob(user) => Read(World, TheJob)' = Read(World, TheJob)]_vars

\* what holds: a request without a session is answered 401, returns nothing
\* and changes nothing
UnauthenticatedIsRejected ==
  [][(GetJob(NULL) \/ CancelJob(NULL)) =>
       /\ access'.code = 401
       /\ access'.body = NoRead
       /\ jobs' = jobs]_vars


====
